---- MODULE Spec2Model ----
(***************************************************************************)
(* Model of team-fraicheur-idfm: the batch pipeline (main.py with          *)
(* src/climate_loader.py, src/idfm_loader.py, src/spatial_analysis.py,     *)
(* src/scoring.py) and the interactive pipeline (src/app.py with           *)
(* src/modules/*.py).                                                      *)
(*                                                                         *)
(* Tables (DataFrames) are sequences of records, in row order.             *)
(* Floating-point columns are modelled by exact rationals plus NaN; the    *)
(* rounding of IEEE doubles is not modelled.                               *)
(* Coordinates are integers in units of a quarter of a tile edge.          *)
(* Identifiers (strings) are sequences of tokens, so that the prefix       *)
(* stripping of the membership file is a real conversion.                  *)
(***************************************************************************)
EXTENDS Integers, Sequences, FiniteSets, TLC

VARIABLES
    path,             \* "batch" (main.py) or "interactive" (src/app.py)
    pc,               \* position of the running pipeline / harness
    tie_order,        \* how this build's quicksort leaves equal keys
    df_mean_temp,     \* climate samples handed to the cell builder
    climate_gdf,      \* cells (hot_squares in main, climate_gdf in app)
    stops_gdf,        \* stops table
    arrets_lignes,    \* rows of arrets-lignes.csv (batch)
    joined_stops,     \* join output (stops_in_hot_zones / joined_stops)
    hot_stops_lines,  \* joined rows exploded by line
    hot_lines_df,     \* per-line aggregate of the batch path
    line_stats,       \* per-line aggregate of the interactive path
    weights,          \* scorer.weights: factor name -> weight
    lines_df_hot_validations,  \* the table main() hands to LineScorer
    prioritized_lines,         \* result of calculate_priority_scores
    scored_stops,     \* result of score_stops
    scored_lines,     \* result of score_lines
    top_stops,        \* run_analysis parameter: rows of rank_stops to keep
    top_lines,        \* run_analysis parameter: rows of rank_lines to keep
    top_priority_stops,        \* result of rank_stops
    top_priority_lines,        \* result of rank_lines
    weights_arg,      \* the `weights` argument a scorer is constructed with
    year,             \* load_data / run_analysis parameter
    data_dir,         \* data/climate and data/idfm: the files present
    ambient,          \* state numpy's global generator had when this process started
    rng,              \* state of numpy's global generator in this process
    cache,            \* st.cache_data entries of load_data in this process
    app_lines_df,     \* lines_df of run_analysis: the lines table of load_data
    run,              \* number of completed runs of the pipeline
    first_run,        \* output tables of the first completed run
    main_lines_df,    \* lines_df of main(): the bus lines of lignes.csv
    lines_df_hot_info,  \* lines_df merged with hot_lines_df (main.py 56-58)
    tile_size,        \* the TILE_SIZE attribute the cell builder reads
    disk,             \* data/output: for each file, the run that wrote it
    shown,            \* the dashboard's tables: for each, the run it came from
    written           \* files of data/output this run has written so far

scoringVars == <<weights, lines_df_hot_validations, prioritized_lines, scored_stops,
                 scored_lines, top_stops, top_lines, top_priority_stops,
                 top_priority_lines>>

runVars == <<weights_arg, year, data_dir, ambient, rng, cache, app_lines_df, run, first_run,
            main_lines_df, lines_df_hot_info, tile_size, disk,
                   shown>>

vars == <<path, pc, tie_order, df_mean_temp, climate_gdf, stops_gdf,
          arrets_lignes, joined_stops, hot_stops_lines, hot_lines_df,
          line_stats, scoringVars, runVars, written>>

----------------------------------------------------------------------------
(* Bounds of the model *)

MaxStops == 2
MaxCells == 2
MaxRows == 2

----------------------------------------------------------------------------
(* Rationals with NaN: [nan, n, d], d > 0, reduced *)

RECURSIVE Gcd(_, _)
Gcd(a, b) == IF b = 0 THEN a ELSE Gcd(b, a % b)

Abs(x) == IF x < 0 THEN -x ELSE x

NaN == [nan |-> TRUE, n |-> 0, d |-> 1]

Frac(a, b) ==
    IF b = 0 THEN NaN
    ELSE LET s == IF b < 0 THEN -1 ELSE 1
             g == Gcd(Abs(a), Abs(b))
             k == IF g = 0 THEN 1 ELSE g
         IN [nan |-> FALSE, n |-> (s * a) \div k, d |-> (s * b) \div k]

R(i) == [nan |-> FALSE, n |-> i, d |-> 1]

IsNaN(x) == x.nan

RAdd(x, y) ==
    IF x.nan \/ y.nan THEN NaN
    ELSE LET g == Gcd(x.d, y.d)
         IN Frac(x.n * (y.d \div g) + y.n * (x.d \div g), (x.d \div g) * y.d)
RNeg(x) == IF x.nan THEN NaN ELSE [nan |-> FALSE, n |-> -x.n, d |-> x.d]
RSub(x, y) == RAdd(x, RNeg(y))
RAbs(x) == IF x.nan THEN NaN ELSE [nan |-> FALSE, n |-> Abs(x.n), d |-> x.d]
RMul(x, y) ==
    IF x.nan \/ y.nan THEN NaN
    ELSE IF x.n = 0 \/ y.n = 0 THEN [nan |-> FALSE, n |-> 0, d |-> 1]
    ELSE LET g1 == Gcd(Abs(x.n), y.d)
             g2 == Gcd(Abs(y.n), x.d)
         IN Frac((x.n \div g1) * (y.n \div g2), (x.d \div g2) * (y.d \div g1))
\* IEEE division: 0/0 is NaN. x/0 with x # 0 is infinite; the scorers divide
\* by max - min only, and when that is 0 every numerator is 0 (or NaN).
RDiv(x, y) ==
    IF x.nan \/ y.nan \/ y.n = 0 THEN NaN
    ELSE RMul(x, Frac(y.d, y.n))
\* comparisons with NaN are false
RLt(x, y) ==
    /\ ~x.nan /\ ~y.nan
    /\ LET g == Gcd(x.d, y.d) IN x.n * (y.d \div g) < y.n * (x.d \div g)
RLe(x, y) ==
    /\ ~x.nan /\ ~y.nan
    /\ LET g == Gcd(x.d, y.d) IN x.n * (y.d \div g) <= y.n * (x.d \div g)
RGe(x, y) == RLe(y, x)
RGt(x, y) == RLt(y, x)

----------------------------------------------------------------------------
(* Sequence helpers *)

Range(s) == {s[i] : i \in DOMAIN s}

Reverse(s) == [i \in 1..Len(s) |-> s[Len(s) + 1 - i]]

RECURSIVE Concat(_)
Concat(ss) == IF ss = <<>> THEN <<>> ELSE Head(ss) \o Concat(Tail(ss))

SeqsUpTo(S, n) == UNION {[1..k -> S] : k \in 1..n}

RECURSIVE SumSeq(_)
SumSeq(s) == IF s = <<>> THEN R(0) ELSE RAdd(Head(s), SumSeq(Tail(s)))

----------------------------------------------------------------------------
(* Strings as token sequences *)

\* collation order of the tokens that occur in identifiers
TokenOrder == <<" ", "A", "B", "IDFM:", "M1">>

TokenRank(t) == CHOOSE i \in 1..Len(TokenOrder) : TokenOrder[i] = t

RECURSIVE StrLt(_, _)
StrLt(a, b) ==
    IF b = <<>> THEN FALSE
    ELSE IF a = <<>> THEN TRUE
    ELSE IF Head(a) = Head(b) THEN StrLt(Tail(a), Tail(b))
    ELSE TokenRank(Head(a)) < TokenRank(Head(b))

\* str.replace(tok, "", regex=False): every occurrence of tok is removed
StrReplace(s, tok) == SelectSeq(s, LAMBDA t : t # tok)

RECURSIVE LStrip(_)
LStrip(s) == IF s # <<>> /\ Head(s) = " " THEN LStrip(Tail(s)) ELSE s

\* str.strip(): leading and trailing whitespace removed
StrStrip(s) == Reverse(LStrip(Reverse(LStrip(s))))

RECURSIVE SortKeys(_)
SortKeys(K) ==
    IF K = {} THEN <<>>
    ELSE LET m == CHOOSE k \in K : \A o \in K \ {k} : StrLt(k, o)
         IN <<m>> \o SortKeys(K \ {m})

----------------------------------------------------------------------------
(* pandas primitives *)

Column(rows, c) == [i \in 1..Len(rows) |-> rows[i][c]]

\* nargsort(keys, kind='quicksort', ascending=False, na_position='last'):
\* the row indices in descending key order, rows with a NaN key last in
\* input order. quicksort is not stable: the order it leaves equal keys in
\* is a property of the build (ties), "input" or "reversed".
ArgsortDesc(keys, ties) ==
    LET n == Len(keys)
        before(i, j) ==
            IF IsNaN(keys[i]) /\ IsNaN(keys[j]) THEN i < j
            ELSE IF IsNaN(keys[i]) THEN FALSE
            ELSE IF IsNaN(keys[j]) THEN TRUE
            ELSE IF RGt(keys[i], keys[j]) THEN TRUE
            ELSE IF RGt(keys[j], keys[i]) THEN FALSE
            ELSE IF ties = "input" THEN i < j ELSE j < i
    IN [p \in 1..n |->
          CHOOSE i \in 1..n : Cardinality({j \in 1..n : before(j, i)}) = p - 1]

\* DataFrame.sort_values(by, ascending=False)
SortValuesDesc(rows, keys, ties) ==
    LET ix == ArgsortDesc(keys, ties) IN [p \in 1..Len(rows) |-> rows[ix[p]]]

\* DataFrame.drop_duplicates(subset, keep='first'); keys is the subset column
DropDuplicates(rows, keys) ==
    LET keep(i) == \A j \in 1..(i - 1) : keys[j] # keys[i]
        F[i \in 0..Len(rows)] ==
            IF i = 0 THEN <<>>
            ELSE IF keep(i) THEN Append(F[i - 1], rows[i]) ELSE F[i - 1]
    IN F[Len(rows)]

\* DataFrame.duplicated(subset).any(); keys is the subset column
AnyDuplicated(keys) ==
    \E i, j \in 1..Len(keys) : i < j /\ keys[i] = keys[j]

\* Series.nunique()
NUnique(vals) == Cardinality(Range(vals))

\* Series.mean() of an integer column
Mean(vals) == IF vals = <<>> THEN NaN
              ELSE RDiv(SumSeq([i \in 1..Len(vals) |-> R(vals[i])]), R(Len(vals)))

\* pandas.merge(left, right, left_on, right_on, how='inner'): the order of
\* the left keys is kept, matching right rows follow in right order
MergeInner(left, right, left_on, right_on) ==
    Concat([i \in 1..Len(left) |->
        LET m == SelectSeq(right, LAMBDA r : r[right_on] = left[i][left_on])
        IN [j \in 1..Len(m) |-> left[i] @@ m[j]]])

\* a file that does not exist, a source that cannot be fetched
Absent == "absent"

----------------------------------------------------------------------------
(* Cell builders *)

\* ClimateDataLoader.TILE_SIZE (0.0225 degrees), in quarter-tile units
TILE_SIZE == 4

\* src/climate_loader.py ClimateDataLoader.convert_to_geodataframe:
\* box(lon - half_tile, lat - half_tile, lon + half_tile, lat + half_tile)
convert_to_geodataframe(df) ==
    LET half_tile == TILE_SIZE \div 2
    IN [i \in 1..Len(df) |->
          df[i] @@ [minx |-> df[i].lon - half_tile, miny |-> df[i].lat - half_tile,
                    maxx |-> df[i].lon + half_tile, maxy |-> df[i].lat + half_tile]]

\* src/modules/climate_loader.py ClimateDataLoader._convert_to_geodataframe:
\* box(lon, lat, lon + TILE_SIZE, lat + TILE_SIZE)
modules_convert_to_geodataframe(df) ==
    [i \in 1..Len(df) |->
        df[i] @@ [minx |-> df[i].lon, miny |-> df[i].lat,
                  maxx |-> df[i].lon + TILE_SIZE, maxy |-> df[i].lat + TILE_SIZE]]

----------------------------------------------------------------------------
(* SpatialAnalyzer *)

\* a predicate that counts the boundary in ("intersects" for a point and a box)
WithinOrOnBoundary(s, c) ==
    c.minx <= s.lon /\ s.lon <= c.maxx /\ c.miny <= s.lat /\ s.lat <= c.maxy

\* shapely "within" for a point and a box: the point is in the interior
Within(s, c) == c.minx < s.lon /\ s.lon < c.maxx /\ c.miny < s.lat /\ s.lat < c.maxy

\* one row of the sjoin result: the stop's columns, then the cell's
\* (lon/lat clash and get the _left/_right suffixes; index_right is dropped)
SjoinRow(s, c) ==
    [k \in (DOMAIN s) \ {"lon", "lat"} |-> s[k]] @@
    [lon_left |-> s.lon, lat_left |-> s.lat,
     lon_right |-> c.lon, lat_right |-> c.lat, temperature |-> c.temperature]

\* how="left" in place of how="inner": a stop within no cell keeps a row
sjoin_left_within(stops, cells) ==
    Concat([i \in 1..Len(stops) |->
        LET m == SelectSeq(cells, LAMBDA c : Within(stops[i], c))
        IN IF m = <<>>
           THEN <<SjoinRow(stops[i], [lon |-> 0, lat |-> 0, temperature |-> 0])>>
           ELSE [j \in 1..Len(m) |-> SjoinRow(stops[i], m[j])]])

\* gpd.sjoin(stops, cells, how="inner", predicate="within"): one row per
\* (stop, cell) pair with the stop within the cell, in stop order and, for
\* one stop, in cell order; a stop within no cell has no row
sjoin_inner_within(stops, cells) ==
    Concat([i \in 1..Len(stops) |->
        LET m == SelectSeq(cells, LAMBDA c : Within(stops[i], c))
        IN [j \in 1..Len(m) |-> SjoinRow(stops[i], m[j])]])

\* a join without the "within" predicate: every stop paired with every cell
sjoin_every_cell(stops, cells) ==
    Concat([i \in 1..Len(stops) |->
        [j \in 1..Len(cells) |-> SjoinRow(stops[i], cells[j])]])

\* SpatialAnalyzer.join_stops_with_climate (both variants; the CRS of both
\* tables is EPSG:4326, so to_crs is not taken)
join_stops_with_climate(stops, cells) == sjoin_inner_within(stops, cells)

\* src/modules/spatial_analysis.py SpatialAnalyzer.calculate_stop_heat_exposure
calculate_stop_heat_exposure(joined_gdf, ties) ==
    IF AnyDuplicated(Column(joined_gdf, "stop_id"))
    THEN LET sorted == SortValuesDesc(joined_gdf,
                           [i \in 1..Len(joined_gdf) |-> R(joined_gdf[i].temperature)],
                           ties)
         IN DropDuplicates(sorted, Column(sorted, "stop_id"))
    ELSE joined_gdf

\* stops_exploded: 'lines' split on ',', one row per element, stripped
explode_lines(stops) ==
    Concat([i \in 1..Len(stops) |->
        [j \in 1..Len(stops[i].lines) |->
            stops[i] @@ [line |-> StrStrip(stops[i].lines[j])]]])

\* the count the interactive aggregation reports per line: 'stop_id': 'count'
count_stop_id(rows) == Len(rows)

CountFalse(vals) == Cardinality({i \in 1..Len(vals) : ~vals[i]})

RECURSIVE SumInt(_)
SumInt(s) == IF s = <<>> THEN 0 ELSE Head(s) + SumInt(Tail(s))

\* src/modules/spatial_analysis.py SpatialAnalyzer.aggregate_by_line
\* (max_temp, min_temp and avg_passengers_per_stop are not read downstream)
aggregate_by_line(stops) ==
    LET ex   == explode_lines(stops)
        keys == SortKeys({ex[i].line : i \in 1..Len(ex)})
    IN [k \in 1..Len(keys) |->
          LET g == SelectSeq(ex, LAMBDA r : r.line = keys[k])
          IN [line |-> keys[k],
              avg_temp |-> Mean(Column(g, "temperature")),
              total_passengers |-> SumInt(Column(g, "daily_passengers")),
              num_stops |-> count_stop_id(g),
              stops_without_shelter |-> CountFalse(Column(g, "has_shelter")),
              stops_without_bench |-> CountFalse(Column(g, "has_bench"))]]

----------------------------------------------------------------------------
(* IDFMDataLoader (batch) and the aggregation of main() *)

\* src/idfm_loader.py IDFMDataLoader.get_stops_lines
get_stops_lines(stops, file) ==
    LET bus == SelectSeq(file, LAMBDA r : r.mode = "Bus")
        stops_for_line ==
            [i \in 1..Len(bus) |->
                [route_id |-> StrReplace(bus[i].route_id, "IDFM:"),
                 stop_id  |-> StrReplace(bus[i].stop_id, "IDFM:")]]
    IN MergeInner(stops, stops_for_line, "arrid", "stop_id")

\* the count main() reports per line: "stop_id": "nunique"
nunique_stop_id(rows) == NUnique(Column(rows, "stop_id"))

\* main.py 49-53: groupby("route_id").agg(temperature mean, stop_id nunique)
groupby_route_id(rows) ==
    LET keys == SortKeys({rows[i].route_id : i \in 1..Len(rows)})
    IN [k \in 1..Len(keys) |->
          LET g == SelectSeq(rows, LAMBDA r : r.route_id = keys[k])
          IN [route_id |-> keys[k],
              temperature |-> Mean(Column(g, "temperature")),
              stop_id |-> nunique_stop_id(g)]]

----------------------------------------------------------------------------
(* Scorers *)

\* Series.min() / Series.max(): NaN entries are skipped, NaN when none is left
RMin(vals) ==
    LET ok == {i \in 1..Len(vals) : ~IsNaN(vals[i])}
    IN IF ok = {} THEN NaN
       ELSE vals[CHOOSE i \in ok : \A j \in ok : RLe(vals[i], vals[j])]

RMax(vals) ==
    LET ok == {i \in 1..Len(vals) : ~IsNaN(vals[i])}
    IN IF ok = {} THEN NaN
       ELSE vals[CHOOSE i \in ok : \A j \in ok : RGe(vals[i], vals[j])]

RColumn(rows, c) == [i \in 1..Len(rows) |-> R(rows[i][c])]

\* a missing (NaN) air_conditioning entry
MissingStatus == "<missing>"

LineScorerDefaults ==
    [temperature |-> Frac(30, 100), stops |-> Frac(20, 100),
     air_conditioning |-> Frac(25, 100), validations |-> Frac(25, 100)]

PriorityScorerDefaults ==
    [temperature |-> Frac(35, 100), passenger_volume |-> Frac(30, 100),
     lack_of_shelter |-> Frac(20, 100), lack_of_bench |-> Frac(15, 100)]

\* sum(self.weights.values())
RECURSIVE SumWeights(_, _)
SumWeights(w, keys) ==
    IF keys = {} THEN R(0)
    ELSE LET k == CHOOSE x \in keys : TRUE
         IN RAdd(w[k], SumWeights(w, keys \ {k}))

\* np.isclose(a, b): |a - b| <= atol + rtol * |b|, rtol = 1e-05, atol = 1e-08
IsClose(a, b) ==
    RLe(RAbs(RSub(a, b)),
        RAdd(Frac(1, 100000000), RMul(Frac(1, 100000), RAbs(b))))

\* LineScorer.__init__: `weights or defaults`, nothing validated.
\* <<>> stands for None and for the empty mapping (both falsy).
LineScorer_init(w) ==
    [raised |-> "none", weights |-> IF w = <<>> THEN LineScorerDefaults ELSE w]

\* PriorityScorer.__init__: `weights or defaults`, then the sum is validated
PriorityScorer_init(w) ==
    LET ws == IF w = <<>> THEN PriorityScorerDefaults ELSE w
        total == SumWeights(ws, DOMAIN ws)
    IN IF ~IsClose(total, R(1))
       THEN [raised |-> "ValueError", weights |-> ws]
       ELSE [raised |-> "none", weights |-> ws]

\* LineScorer.get_ac_score
get_ac_score(ac_status) ==
    IF ac_status \in {"false", "unknown"} \/ ac_status = MissingStatus THEN R(1)
    ELSE IF ac_status = "partial" THEN Frac(1, 2)
    ELSE R(0)

\* (v - min) / (max - min), as LineScorer computes it: no guard
Normalize(v, lo, hi) == RDiv(RSub(v, lo), RSub(hi, lo))

\* the guarded form of PriorityScorer: 0.5 unless max > min
NormalizeGuarded(v, lo, hi) == IF RGt(hi, lo) THEN Normalize(v, lo, hi) ELSE Frac(1, 2)

\* stops_without_x / max, 0.0 unless max > 0
NormalizeByMax(v, hi) == IF RGt(hi, R(0)) THEN RDiv(v, hi) ELSE R(0)

\* df.sort_values(by="priority_score", ascending=False); df["rank"] = 1..N
SortAndRank(rows, ties) ==
    LET sorted == SortValuesDesc(rows, Column(rows, "priority_score"), ties)
    IN [i \in 1..Len(sorted) |-> sorted[i] @@ [rank |-> i]]

\* DataFrame.head(n)
DfHead(rows, n) == SubSeq(rows, 1, IF n < Len(rows) THEN n ELSE Len(rows))

\* LineScorer.calculate_priority_scores
calculate_priority_scores(lines_df, w, ties) ==
    LET temp == Column(lines_df, "temperature")
        stps == RColumn(lines_df, "stop_id")
        vals == Column(lines_df, "nb_validations")
        scored ==
          [i \in 1..Len(lines_df) |->
            LET ts == Normalize(temp[i], RMin(temp), RMax(temp))
                ss == Normalize(stps[i], RMin(stps), RMax(stps))
                vs == Normalize(vals[i], RMin(vals), RMax(vals))
                ac == get_ac_score(lines_df[i].air_conditioning)
            IN lines_df[i] @@
               [temp_score |-> ts, stops_score |-> ss, validations_score |-> vs,
                ac_score |-> ac,
                priority_score |->
                    RMul(RAdd(RAdd(RAdd(RMul(w.temperature, ts), RMul(w.stops, ss)),
                                   RMul(w.air_conditioning, ac)),
                              RMul(w.validations, vs)),
                         R(100))]]
    IN SortAndRank(scored, ties)

\* PriorityScorer.score_stops
score_stops(stops, w) ==
    LET temp == RColumn(stops, "temperature")
        pass == RColumn(stops, "daily_passengers")
    IN [i \in 1..Len(stops) |->
          LET ts == NormalizeGuarded(temp[i], RMin(temp), RMax(temp))
              ps == NormalizeGuarded(pass[i], RMin(pass), RMax(pass))
              sh == IF stops[i].has_shelter THEN R(0) ELSE R(1)
              be == IF stops[i].has_bench THEN R(0) ELSE R(1)
          IN stops[i] @@
             [temp_score |-> ts, passenger_score |-> ps,
              shelter_score |-> sh, bench_score |-> be,
              priority_score |->
                  RMul(RAdd(RAdd(RAdd(RMul(w.temperature, ts),
                                      RMul(w.passenger_volume, ps)),
                                 RMul(w.lack_of_shelter, sh)),
                            RMul(w.lack_of_bench, be)),
                       R(100))]]

\* PriorityScorer.score_lines
score_lines(stats, w) ==
    LET temp == Column(stats, "avg_temp")
        pass == RColumn(stats, "total_passengers")
        shel == RColumn(stats, "stops_without_shelter")
        benc == RColumn(stats, "stops_without_bench")
    IN [i \in 1..Len(stats) |->
          LET ts == NormalizeGuarded(temp[i], RMin(temp), RMax(temp))
              ps == NormalizeGuarded(pass[i], RMin(pass), RMax(pass))
              sh == NormalizeByMax(shel[i], RMax(shel))
              be == NormalizeByMax(benc[i], RMax(benc))
          IN stats[i] @@
             [temp_score |-> ts, passenger_score |-> ps,
              shelter_score |-> sh, bench_score |-> be,
              priority_score |->
                  RMul(RAdd(RAdd(RAdd(RMul(w.temperature, ts),
                                      RMul(w.passenger_volume, ps)),
                                 RMul(w.lack_of_shelter, sh)),
                            RMul(w.lack_of_bench, be)),
                       R(100))]]

\* rank_stops with head(top_n) taken before the sort: the first top_n rows
\* of the table, ranked among themselves
rank_top_head_first(rows, top_n, ties) == SortAndRank(DfHead(rows, top_n), ties)

\* PriorityScorer.rank_stops and rank_lines (the same code)
rank_top(rows, top_n, ties) == DfHead(SortAndRank(rows, ties), top_n)

----------------------------------------------------------------------------
(* Inputs of the spatial stages *)

A == <<"A">>
B == <<"B">>

StopNames == <<"s1", "s2", "s3", "s4">>
StopId(i) == <<StopNames[i]>>

\* with cells at lon 2 and 4, lat 2: (3,3) and (5,3) lie in one or two
\* cells depending on the builder, (9,3) lies outside every cell
StopPoints == {[lon |-> 3, lat |-> 3], [lon |-> 5, lat |-> 3], [lon |-> 9, lat |-> 3]}

CellSamples == {[lon |-> 2, lat |-> 2, temperature |-> 30],
                [lon |-> 4, lat |-> 2, temperature |-> 30],
                [lon |-> 4, lat |-> 2, temperature |-> 35]}

TieOrders == {"input", "reversed"}

\* the lines a stop serves, as listed: two lines, or one line twice
BatchLineLists == {<<A, B>>, <<A, A>>}
InteractiveLineLists == {<<A, B>>, <<A, <<" ", "A">>>>}

\* df_mean_temp of load_climate_tiles_from_s3: one row per (lon, lat),
\* sorted by temperature, hottest first
BatchSamples ==
    {s \in SeqsUpTo(CellSamples, MaxCells) :
        /\ \A i, j \in 1..Len(s) : i < j =>
              /\ <<s[i].lon, s[i].lat>> # <<s[j].lon, s[j].lat>>
              /\ s[i].temperature >= s[j].temperature}

\* rows of arrets-lignes.csv: the memberships of the bus stops, and a row
\* of another mode
MembershipRows(lists) ==
    Concat([i \in 1..Len(lists) |->
        [j \in 1..Len(lists[i]) |->
            [route_id |-> <<"IDFM:">> \o lists[i][j],
             stop_id  |-> <<"IDFM:">> \o StopId(i),
             mode     |-> "Bus"]]])
    \o <<[route_id |-> <<"IDFM:", "M1">>, stop_id |-> <<"IDFM:">> \o StopId(1),
          mode |-> "Metro"]>>

\* a single run in a fresh process: nothing generated, cached or recorded
NoRunState ==
    /\ year = 0
    /\ data_dir = <<>>
    /\ ambient = 0
    /\ rng = 0
    /\ cache = <<>>
    /\ app_lines_df = <<>>
    /\ run = 0
    /\ first_run = <<>>
    /\ main_lines_df = <<>>
    /\ lines_df_hot_info = <<>>
    /\ tile_size = R(TILE_SIZE)
    /\ disk = <<>>
    /\ shown = <<>>
    /\ written = {}

\* nothing scored yet
NotScored ==
    /\ weights = <<>>
    /\ lines_df_hot_validations = <<>>
    /\ prioritized_lines = <<>>
    /\ scored_stops = <<>>
    /\ scored_lines = <<>>
    /\ top_stops = 0
    /\ top_lines = 0
    /\ top_priority_stops = <<>>
    /\ top_priority_lines = <<>>

InitBatchSpatial ==
    /\ path = "batch"
    /\ pc = "start"
    /\ tie_order \in TieOrders
    /\ df_mean_temp \in BatchSamples
    /\ \E pts \in SeqsUpTo(StopPoints, MaxStops) :
         /\ stops_gdf = [i \in 1..Len(pts) |->
                            [arrid |-> StopId(i), lon |-> pts[i].lon, lat |-> pts[i].lat]]
         /\ \E lists \in [1..Len(pts) -> BatchLineLists] :
               arrets_lignes = MembershipRows(lists)
    /\ climate_gdf = <<>>
    /\ joined_stops = <<>>
    /\ hot_stops_lines = <<>>
    /\ hot_lines_df = <<>>
    /\ line_stats = <<>>
    /\ NotScored
    /\ weights_arg = <<>>
    /\ NoRunState

InitInteractiveSpatial ==
    /\ path = "interactive"
    /\ pc = "start"
    /\ tie_order \in TieOrders
    /\ df_mean_temp \in SeqsUpTo(CellSamples, MaxCells)
    /\ \E pts \in SeqsUpTo(StopPoints, MaxStops) :
         \E lists \in [1..Len(pts) -> InteractiveLineLists] :
            stops_gdf = [i \in 1..Len(pts) |->
                            [stop_id |-> StopId(i), lon |-> pts[i].lon, lat |-> pts[i].lat,
                             lines |-> lists[i], daily_passengers |-> 100 * i,
                             has_shelter |-> (i % 2 = 0), has_bench |-> FALSE]]
    /\ arrets_lignes = <<>>
    /\ climate_gdf = <<>>
    /\ joined_stops = <<>>
    /\ hot_stops_lines = <<>>
    /\ hot_lines_df = <<>>
    /\ line_stats = <<>>
    /\ NotScored
    /\ weights_arg = <<>>
    /\ NoRunState

InitSpatial == InitBatchSpatial \/ InitInteractiveSpatial

----------------------------------------------------------------------------
(* The spatial stages of main() (batch) and run_analysis() (interactive) *)

\* the batch run finds source f missing (data_dir is <<>> when the tables of
\* a stage are given directly)
Missing(f) == data_dir # <<>> /\ f \in data_dir.missing

\* main.py 25-27: the cells of the batch path; a failed fetch raises out of
\* main(). When the registry files are part of the state (data_dir), the
\* run goes on to load them, otherwise the tables are already in place.
LoadClimateTilesFromS3 ==
    /\ path = "batch" /\ pc = "start"
    /\ IF Missing("s3")
       THEN pc' = "FetchError" /\ UNCHANGED climate_gdf
       ELSE /\ climate_gdf' = convert_to_geodataframe(df_mean_temp)
            /\ pc' = IF data_dir = <<>> THEN "loaded" ELSE "cells_loaded"
    /\ UNCHANGED <<written, runVars, path, tie_order, df_mean_temp, stops_gdf, arrets_lignes,
                   joined_stops, hot_stops_lines, hot_lines_df, line_stats, scoringVars>>

\* app.py 119: the cells of the interactive path, read from a file
LoadClimateTiles ==
    /\ path = "interactive" /\ pc = "start"
    /\ climate_gdf' = modules_convert_to_geodataframe(df_mean_temp)
    /\ pc' = "loaded"
    /\ UNCHANGED <<written, runVars, path, tie_order, df_mean_temp, stops_gdf, arrets_lignes,
                   joined_stops, hot_stops_lines, hot_lines_df, line_stats, scoringVars>>

\* main.py 42-44, app.py 162
\* (main.py 41 and 46 write hot_squares.csv before the join and
\* stops_in_hot_zones.csv right after it)
JoinStopsWithClimate ==
    /\ pc = "loaded"
    /\ joined_stops' = join_stops_with_climate(stops_gdf, climate_gdf)
    /\ written' = IF path = "batch"
                  THEN written \cup {"hot_squares.csv", "stops_in_hot_zones.csv"}
                  ELSE written
    /\ pc' = "joined"
    /\ UNCHANGED <<runVars, path, tie_order, df_mean_temp, climate_gdf, stops_gdf,
                   arrets_lignes, hot_stops_lines, hot_lines_df, line_stats, scoringVars>>

\* main.py 48
GetStopsLines ==
    /\ path = "batch" /\ pc = "joined"
    /\ IF Missing("arrets-lignes.csv")
       THEN pc' = "FileNotFoundError" /\ UNCHANGED hot_stops_lines
       ELSE /\ hot_stops_lines' = get_stops_lines(joined_stops, arrets_lignes)
            /\ pc' = "exploded"
    /\ UNCHANGED <<written, runVars, path, tie_order, df_mean_temp, climate_gdf, stops_gdf,
                   arrets_lignes, joined_stops, hot_lines_df, line_stats, scoringVars>>

\* main.py 49-53
GroupByRoute ==
    /\ path = "batch" /\ pc = "exploded"
    /\ hot_lines_df' = groupby_route_id(hot_stops_lines)
    /\ pc' = "aggregated"
    /\ UNCHANGED <<written, runVars, path, tie_order, df_mean_temp, climate_gdf, stops_gdf,
                   arrets_lignes, joined_stops, hot_stops_lines, line_stats, scoringVars>>

\* app.py 163
CalculateStopHeatExposure ==
    /\ path = "interactive" /\ pc = "joined"
    /\ joined_stops' = calculate_stop_heat_exposure(joined_stops, tie_order)
    /\ pc' = "exposed"
    /\ UNCHANGED <<written, runVars, path, tie_order, df_mean_temp, climate_gdf, stops_gdf,
                   arrets_lignes, hot_stops_lines, hot_lines_df, line_stats, scoringVars>>

\* app.py 169
AggregateByLine ==
    /\ path = "interactive" /\ pc = "exposed"
    /\ line_stats' = aggregate_by_line(joined_stops)
    /\ hot_stops_lines' = explode_lines(joined_stops)
    /\ pc' = "aggregated"
    /\ UNCHANGED <<written, runVars, path, tie_order, df_mean_temp, climate_gdf, stops_gdf,
                   arrets_lignes, joined_stops, hot_lines_df, scoringVars>>

NextSpatial ==
    \/ LoadClimateTilesFromS3
    \/ LoadClimateTiles
    \/ JoinStopsWithClimate
    \/ GetStopsLines
    \/ GroupByRoute
    \/ CalculateStopHeatExposure
    \/ AggregateByLine

SpecSpatial == InitSpatial /\ [][NextSpatial]_vars

----------------------------------------------------------------------------
(* Scoring stages of main() and run_analysis(), and the tables they score *)

RouteNames == <<"A", "B", "C", "D">>
RouteName(i) == <<RouteNames[i]>>

\* the weights main() constructs its LineScorer with (main.py 64-69)
MainWeights ==
    [temperature |-> Frac(30, 100), stops |-> Frac(20, 100),
     air_conditioning |-> Frac(25, 100), validations |-> Frac(25, 100)]

\* rows of lines_df_hot_validations: the numeric factors vary, with and
\* without a validation count, and the amenity status takes every kind of
\* value: the three categories, "unknown", a missing entry, another string
LineRows ==
    {[temperature |-> R(t), stop_id |-> n, nb_validations |-> v,
      air_conditioning |-> "false"] :
        t \in {30, 35}, n \in {1, 2}, v \in {NaN, R(10), R(20)}}
    \cup
    {[temperature |-> R(30), stop_id |-> 1, nb_validations |-> R(10),
      air_conditioning |-> ac] :
        ac \in {"partial", "true", "unknown", MissingStatus, "yes"}}

\* rows of joined_stops as score_stops reads them
StopRows ==
    {[temperature |-> t, daily_passengers |-> p, has_shelter |-> s, has_bench |-> b] :
        t \in {30, 35}, p \in {100, 200}, s \in BOOLEAN, b \in BOOLEAN}

\* rows of line_stats as score_lines reads them
StatRows ==
    {[avg_temp |-> R(t), total_passengers |-> p,
      stops_without_shelter |-> s, stops_without_bench |-> b] :
        t \in {30, 35}, p \in {100, 200}, s \in {0, 2}, b \in {0, 1}}

\* values of the top_stops / top_lines sliders, scaled to the table sizes:
\* one below and one above the number of rows
TopNs == {1, 5}

NoSpatialInputs ==
    /\ df_mean_temp = <<>>
    /\ climate_gdf = <<>>
    /\ stops_gdf = <<>>
    /\ arrets_lignes = <<>>
    /\ hot_stops_lines = <<>>
    /\ hot_lines_df = <<>>

NothingScored ==
    /\ prioritized_lines = <<>>
    /\ scored_stops = <<>>
    /\ scored_lines = <<>>
    /\ top_stops = 0
    /\ top_lines = 0
    /\ top_priority_stops = <<>>
    /\ top_priority_lines = <<>>

\* main() after get_validations_lines, LineScorer constructed
InitLineScorer ==
    /\ path = "batch"
    /\ pc = "constructed"
    /\ tie_order \in TieOrders
    /\ weights_arg = MainWeights
    /\ weights = LineScorer_init(weights_arg).weights
    /\ NoRunState
    /\ \E rows \in SeqsUpTo(LineRows, MaxRows) :
          lines_df_hot_validations =
              [i \in 1..Len(rows) |-> [route_id |-> RouteName(i)] @@ rows[i]]
    /\ joined_stops = <<>>
    /\ line_stats = <<>>
    /\ NoSpatialInputs
    /\ NothingScored

\* run_analysis() after aggregate_by_line, PriorityScorer() constructed:
\* a stop table to score
InitScoreStops ==
    /\ path = "interactive"
    /\ pc = "constructed"
    /\ tie_order \in TieOrders
    /\ weights_arg = <<>>
    /\ weights = PriorityScorer_init(weights_arg).weights
    /\ NoRunState
    /\ \E rows \in SeqsUpTo(StopRows, MaxRows) :
          joined_stops = [i \in 1..Len(rows) |-> [stop_id |-> StopId(i)] @@ rows[i]]
    /\ line_stats = <<>>
    /\ lines_df_hot_validations = <<>>
    /\ NoSpatialInputs
    /\ NothingScored

\* the same, with a line table to score
InitScoreLines ==
    /\ path = "interactive"
    /\ pc = "constructed"
    /\ tie_order \in TieOrders
    /\ weights_arg = <<>>
    /\ weights = PriorityScorer_init(weights_arg).weights
    /\ NoRunState
    /\ \E rows \in SeqsUpTo(StatRows, MaxRows) :
          line_stats = [i \in 1..Len(rows) |-> [line |-> RouteName(i)] @@ rows[i]]
    /\ joined_stops = <<>>
    /\ lines_df_hot_validations = <<>>
    /\ NoSpatialInputs
    /\ NothingScored

InitScoring == InitLineScorer \/ InitScoreStops \/ InitScoreLines

\* calculate_priority_scores without line 17: the columns of lines 22-37 are
\* set on the caller's table
lines_df_after_call_no_copy(lines_df) ==
    LET temp == Column(lines_df, "temperature")
    IN [i \in 1..Len(lines_df) |->
          lines_df[i] @@ [temp_score |-> Normalize(temp[i], RMin(temp), RMax(temp)),
                          ac_score |-> get_ac_score(lines_df[i].air_conditioning)]]

\* src/scoring.py 17, df = lines_df.copy(): every column is set on the copy,
\* the caller's table is after the call what it was before
lines_df_after_call(lines_df) == lines_df

\* main.py 72-74
CalculatePriorityScores ==
    /\ path = "batch" /\ pc = "constructed"
    /\ IF {"temperature", "stops", "air_conditioning", "validations"}
              \subseteq DOMAIN weights
       THEN /\ prioritized_lines' =
                  calculate_priority_scores(lines_df_hot_validations, weights, tie_order)
            /\ pc' = "scored"
       ELSE pc' = "KeyError" /\ UNCHANGED prioritized_lines
    /\ lines_df_hot_validations' = lines_df_after_call(lines_df_hot_validations)
    /\ UNCHANGED <<written, runVars, path, tie_order, df_mean_temp, climate_gdf, stops_gdf,
                   arrets_lignes, joined_stops, hot_stops_lines, hot_lines_df,
                   line_stats, weights, scored_stops,
                   scored_lines, top_stops, top_lines, top_priority_stops,
                   top_priority_lines>>

\* app.py 176
ScoreStops ==
    /\ path = "interactive" /\ pc = "constructed"
    /\ scored_stops' = score_stops(joined_stops, weights)
    /\ pc' = "stops_scored"
    /\ UNCHANGED <<written, runVars, path, tie_order, df_mean_temp, climate_gdf, stops_gdf,
                   arrets_lignes, joined_stops, hot_stops_lines, hot_lines_df,
                   line_stats, weights, lines_df_hot_validations, prioritized_lines,
                   scored_lines, top_stops, top_lines, top_priority_stops,
                   top_priority_lines>>

\* app.py 177
ScoreLines ==
    /\ path = "interactive" /\ pc = "stops_scored"
    /\ scored_lines' = score_lines(line_stats, weights)
    /\ pc' = "lines_scored"
    /\ UNCHANGED <<written, runVars, path, tie_order, df_mean_temp, climate_gdf, stops_gdf,
                   arrets_lignes, joined_stops, hot_stops_lines, hot_lines_df,
                   line_stats, weights, lines_df_hot_validations, prioritized_lines,
                   scored_stops, top_stops, top_lines, top_priority_stops,
                   top_priority_lines>>

\* app.py 180
RankStops ==
    /\ path = "interactive" /\ pc = "lines_scored"
    /\ \E n \in TopNs :
          /\ top_stops' = n
          /\ top_priority_stops' = rank_top(scored_stops, n, tie_order)
    /\ pc' = "stops_ranked"
    /\ UNCHANGED <<written, runVars, path, tie_order, df_mean_temp, climate_gdf, stops_gdf,
                   arrets_lignes, joined_stops, hot_stops_lines, hot_lines_df,
                   line_stats, weights, lines_df_hot_validations, prioritized_lines,
                   scored_stops, scored_lines, top_lines, top_priority_lines>>

\* app.py 181
RankLines ==
    /\ path = "interactive" /\ pc = "stops_ranked"
    /\ \E n \in TopNs :
          /\ top_lines' = n
          /\ top_priority_lines' = rank_top(scored_lines, n, tie_order)
    /\ pc' = "lines_ranked"
    /\ UNCHANGED <<written, runVars, path, tie_order, df_mean_temp, climate_gdf, stops_gdf,
                   arrets_lignes, joined_stops, hot_stops_lines, hot_lines_df,
                   line_stats, weights, lines_df_hot_validations, prioritized_lines,
                   scored_stops, scored_lines, top_stops, top_priority_stops>>

NextScoring ==
    \/ CalculatePriorityScores
    \/ ScoreStops
    \/ ScoreLines
    \/ RankStops
    \/ RankLines

SpecScoring == InitScoring /\ [][NextScoring]_vars

----------------------------------------------------------------------------
(* Claims on the spatial stages *)

StopKey(r) == IF "arrid" \in DOMAIN r THEN r.arrid ELSE r.stop_id

LineKey(r) == IF "route_id" \in DOMAIN r THEN r.route_id ELSE r.line

StopKeys(rows) == {StopKey(rows[i]) : i \in 1..Len(rows)}

CellsContaining(s) == SelectSeq(climate_gdf, LAMBDA c : Within(s, c))

Aggregate == IF path = "batch" THEN hot_lines_df ELSE line_stats

ReportedStops(row) == IF path = "batch" THEN row.stop_id ELSE row.num_stops

\* C1: every line of the aggregate reports the number of distinct stops
\* joined to it (never the number of join rows), in both paths.
C1_DistinctStopCount ==
    pc = "aggregated" =>
        \A k \in 1..Len(Aggregate) :
            ReportedStops(Aggregate[k]) =
                Cardinality({StopKey(hot_stops_lines[i]) :
                    i \in {j \in 1..Len(hot_stops_lines) :
                              LineKey(hot_stops_lines[j]) = LineKey(Aggregate[k])}})

\* C2: a stop within several cells reaches the aggregation as exactly one
\* joined record, carrying the hottest containing cell and, among equally
\* hot cells, the first one in cell order.
C2_OneRecordPerOverlappingStop ==
    ((path = "batch" /\ pc = "joined") \/ (path = "interactive" /\ pc = "exposed")) =>
        \A i \in 1..Len(stops_gdf) :
            LET cs   == CellsContaining(stops_gdf[i])
                rows == SelectSeq(joined_stops,
                                  LAMBDA r : StopKey(r) = StopKey(stops_gdf[i]))
                best == CHOOSE j \in 1..Len(cs) :
                            /\ \A k \in 1..Len(cs) : cs[j].temperature >= cs[k].temperature
                            /\ \A k \in 1..(j - 1) : cs[k].temperature < cs[j].temperature
            IN Len(cs) > 1 =>
                  /\ Len(rows) = 1
                  /\ rows[1].temperature = cs[best].temperature
                  /\ rows[1].lon_right = cs[best].lon
                  /\ rows[1].lat_right = cs[best].lat

\* C10: a stop that lies within no cell has no record in the join output,
\* and no later stage brings it back.
C10_JoinExclusive ==
    pc \in {"joined", "exploded", "exposed", "aggregated"} =>
        \A i \in 1..Len(stops_gdf) :
            CellsContaining(stops_gdf[i]) = <<>> =>
                /\ StopKey(stops_gdf[i]) \notin StopKeys(joined_stops)
                /\ StopKey(stops_gdf[i]) \notin StopKeys(hot_stops_lines)

C10_Witness ==
    /\ pc = "aggregated"
    /\ joined_stops # <<>>
    /\ hot_stops_lines # <<>>
    /\ \E i \in 1..Len(stops_gdf) : CellsContaining(stops_gdf[i]) = <<>>

\* C11: a stop strictly inside exactly one cell has exactly one record in
\* the output of join_stops_with_climate, carrying that cell's temperature.
C11_JoinComplete ==
    pc = "joined" =>
        \A i \in 1..Len(stops_gdf) :
            LET cs   == CellsContaining(stops_gdf[i])
                rows == SelectSeq(joined_stops,
                                  LAMBDA r : StopKey(r) = StopKey(stops_gdf[i]))
            IN Len(cs) = 1 =>
                  /\ Len(rows) = 1
                  /\ rows[1].temperature = cs[1].temperature
                  /\ rows[1].lon_right = cs[1].lon
                  /\ rows[1].lat_right = cs[1].lat

\* a joined stop that lies in one of two cells of different temperature
C11_Witness ==
    /\ pc = "joined"
    /\ Len(climate_gdf) = 2
    /\ climate_gdf[1].temperature # climate_gdf[2].temperature
    /\ \E i \in 1..Len(stops_gdf) :
          /\ Len(CellsContaining(stops_gdf[i])) = 1
          /\ StopKey(stops_gdf[i]) \in StopKeys(joined_stops)

----------------------------------------------------------------------------
(* Claims on the scorers *)

Half == Frac(1, 2)

AllEqual(rows, col) == \A i, j \in 1..Len(rows) : rows[i][col] = rows[j][col]

AllHalf(rows, col) == \A i \in 1..Len(rows) : rows[i][col] = Half

InUnit(x) == ~IsNaN(x) /\ RLe(R(0), x) /\ RLe(x, R(1))

\* C3: whenever all rows of a scored table carry the same raw value of a
\* continuous factor, every row's normalised score of that factor is 0.5.
C3_ZeroVarianceNeutral ==
    /\ \A f \in {<<"temperature", "temp_score">>, <<"stop_id", "stops_score">>,
                 <<"nb_validations", "validations_score">>} :
          (prioritized_lines # <<>> /\ AllEqual(prioritized_lines, f[1]))
              => AllHalf(prioritized_lines, f[2])
    /\ \A f \in {<<"temperature", "temp_score">>,
                 <<"daily_passengers", "passenger_score">>} :
          (scored_stops # <<>> /\ AllEqual(scored_stops, f[1]))
              => AllHalf(scored_stops, f[2])
    /\ \A f \in {<<"avg_temp", "temp_score">>,
                 <<"total_passengers", "passenger_score">>,
                 <<"stops_without_shelter", "shelter_score">>,
                 <<"stops_without_bench", "bench_score">>} :
          (scored_lines # <<>> /\ AllEqual(scored_lines, f[1]))
              => AllHalf(scored_lines, f[2])

\* C4: every normalised score of every scored row is a number in [0, 1].
C4_ScoresInUnitInterval ==
    /\ \A i \in 1..Len(prioritized_lines) :
          \A c \in {"temp_score", "stops_score", "validations_score", "ac_score"} :
              InUnit(prioritized_lines[i][c])
    /\ \A i \in 1..Len(scored_stops) :
          \A c \in {"temp_score", "passenger_score", "shelter_score", "bench_score"} :
              InUnit(scored_stops[i][c])
    /\ \A i \in 1..Len(scored_lines) :
          \A c \in {"temp_score", "passenger_score", "shelter_score", "bench_score"} :
              InUnit(scored_lines[i][c])

\* C6: get_ac_score gives "partial" 0.5, "true" 0.0, and 1.0 to "false" and
\* to every status outside the three categories (unknown, missing, other).
C6_UnknownStatusIsWorstCase ==
    \A i \in 1..Len(prioritized_lines) :
        prioritized_lines[i].ac_score =
            (IF prioritized_lines[i].air_conditioning = "partial" THEN Half
             ELSE IF prioritized_lines[i].air_conditioning = "true" THEN R(0)
             ELSE R(1))

\* ranks are 1..N, each once, and the score never rises with the rank
RankedDescending(t, n) ==
    /\ Len(t) = n
    /\ {t[i].rank : i \in 1..Len(t)} = 1..n
    /\ \A a, b \in 1..Len(t) :
          t[a].rank < t[b].rank => RGe(t[a].priority_score, t[b].priority_score)

\* C7: the ranked table carries the ranks 1..N and priority_score is
\* non-increasing as the rank increases (rank_stops / rank_lines: when
\* top_n >= N).
C7_RanksContiguousAndMonotone ==
    /\ pc = "scored" =>
          RankedDescending(prioritized_lines, Len(lines_df_hot_validations))
    /\ (pc \in {"stops_ranked", "lines_ranked"} /\ top_stops >= Len(scored_stops)) =>
          RankedDescending(top_priority_stops, Len(scored_stops))
    /\ (pc = "lines_ranked" /\ top_lines >= Len(scored_lines)) =>
          RankedDescending(top_priority_lines, Len(scored_lines))

\* position of the row with identifier id in the table the ranking received
InputPos(input, col, id) == CHOOSE i \in 1..Len(input) : input[i][col] = id

\* rows of equal score get distinct ranks, in input order
TiesInInputOrder(t, input, col) ==
    \A a, b \in 1..Len(t) :
        (/\ a # b
         /\ t[a].priority_score = t[b].priority_score
         /\ ~IsNaN(t[a].priority_score)
         /\ InputPos(input, col, t[a][col]) < InputPos(input, col, t[b][col]))
            => t[a].rank < t[b].rank

\* C8: rows of equal priority_score receive distinct ranks that follow their
\* order in the input of the ranking step.
C8_TiesKeepInputOrder ==
    /\ TiesInInputOrder(prioritized_lines, lines_df_hot_validations, "route_id")
    /\ TiesInInputOrder(top_priority_stops, scored_stops, "stop_id")
    /\ TiesInInputOrder(top_priority_lines, scored_lines, "line")

----------------------------------------------------------------------------
(* Construction of the scorers *)

\* sums of the weights handed to a constructor: 1, 0.97, 1.03, and sums
\* 5e-7, 1e-6, 5e-6 and 2e-5 away from 1 on either side
WeightSums ==
    {R(1), Frac(97, 100), Frac(103, 100)}
    \cup {RAdd(R(1), Frac(s * k, 10000000)) : s \in {-1, 1}, k \in {5, 10, 50, 200}}

\* weights of LineScorer's four factors that sum to total
LineScorerArgs ==
    {[temperature |-> RSub(total, RAdd(RAdd(st, ac), Frac(25, 100))),
      stops |-> st, air_conditioning |-> ac, validations |-> Frac(25, 100)] :
        total \in WeightSums, st \in {Frac(20, 100), Frac(10, 100)},
        ac \in {Frac(25, 100), Frac(30, 100)}}

\* weights of PriorityScorer's four factors that sum to total
PriorityScorerArgs ==
    {[temperature |-> RSub(total, RAdd(RAdd(pv, sh), Frac(15, 100))),
      passenger_volume |-> pv, lack_of_shelter |-> sh, lack_of_bench |-> Frac(15, 100)] :
        total \in WeightSums, pv \in {Frac(30, 100), Frac(20, 100)},
        sh \in {Frac(20, 100), Frac(25, 100)}}

InitWeights ==
    /\ pc = "start"
    /\ \/ path = "batch" /\ weights_arg \in LineScorerArgs \cup {<<>>}
       \/ path = "interactive" /\ weights_arg \in PriorityScorerArgs \cup {<<>>}
    /\ tie_order \in TieOrders
    /\ joined_stops = <<>>
    /\ line_stats = <<>>
    /\ NoSpatialInputs
    /\ NotScored
    /\ NoRunState

\* LineScorer(weights): src/scoring.py 8-14
ConstructLineScorer ==
    /\ path = "batch" /\ pc = "start"
    /\ LET r == LineScorer_init(weights_arg)
       IN /\ pc' = IF r.raised = "none" THEN "constructed" ELSE r.raised
          /\ weights' = IF r.raised = "none" THEN r.weights ELSE weights
    /\ UNCHANGED <<written, runVars, path, tie_order, df_mean_temp, climate_gdf, stops_gdf,
                   arrets_lignes, joined_stops, hot_stops_lines, hot_lines_df,
                   line_stats, lines_df_hot_validations, prioritized_lines,
                   scored_stops, scored_lines, top_stops, top_lines,
                   top_priority_stops, top_priority_lines>>

\* PriorityScorer(weights): src/modules/scoring.py 12-30
ConstructPriorityScorer ==
    /\ path = "interactive" /\ pc = "start"
    /\ LET r == PriorityScorer_init(weights_arg)
       IN /\ pc' = IF r.raised = "none" THEN "constructed" ELSE r.raised
          /\ weights' = IF r.raised = "none" THEN r.weights ELSE weights
    /\ UNCHANGED <<written, runVars, path, tie_order, df_mean_temp, climate_gdf, stops_gdf,
                   arrets_lignes, joined_stops, hot_stops_lines, hot_lines_df,
                   line_stats, lines_df_hot_validations, prioritized_lines,
                   scored_stops, scored_lines, top_stops, top_lines,
                   top_priority_stops, top_priority_lines>>

NextWeights ==
    \/ ConstructLineScorer
    \/ ConstructPriorityScorer

SpecWeights == InitWeights /\ [][NextWeights]_vars

\* sum of the weights a constructor was handed
ArgSum == SumWeights(weights_arg, DOMAIN weights_arg)

\* C5: a constructor given weights succeeds when their sum is within 1e-6 of
\* 1.0 and fails with an invalid-weights error otherwise (0.97 and 1.03
\* included).
C5_WeightSumValidated ==
    (pc # "start" /\ weights_arg # <<>>) =>
        IF RLe(RAbs(RSub(ArgSum, R(1))), Frac(1, 1000000))
        THEN pc = "constructed"
        ELSE pc = "ValueError"

----------------------------------------------------------------------------
(* numpy's global generator and the sample-data generators *)

\* the generator state is one of RngModulus values; a draw reads the state
\* and advances it
RngModulus == 16

\* np.random.seed(s)
np_random_seed(s) == s % RngModulus

rng_next(st) == (5 * st + 3) % RngModulus

\* state after k draws
RECURSIVE Advance(_, _)
Advance(st, k) == IF k = 0 THEN st ELSE Advance(rng_next(st), k - 1)

\* the value a draw among n outcomes returns in state st
Draw(st, n) == (st \div 4) % n

\* sizes of the generated tables (500 stops, 99 lines, the tile grid of
\* Ile-de-France in the source)
SampleStops == 2
SampleLines == 2
SampleTiles == 2

\* Paris centre, on the grid of quarter tiles
CenterLon == 4
CenterLat == 1

\* ClimateDataLoader._generate_sample_climate_data: seeds the generator with
\* 42 + year, then one randn() per tile
generate_sample_climate_data(yr) ==
    LET s0 == np_random_seed(42 + yr)
    IN [rows |->
          [i \in 1..SampleTiles |->
             LET lon == TILE_SIZE * (i - 1)
                 distance_from_center == Abs(lon - CenterLon) \div TILE_SIZE
                 base_temp == 25 - distance_from_center * 2
                 year_effect == (yr - 2020) \div 2
                 random_effect == (Draw(Advance(s0, i - 1), 3) - 1) * 2
             IN [lon |-> lon, lat |-> 0,
                 temperature |-> base_temp + year_effect + random_effect,
                 minx |-> lon, miny |-> 0,
                 maxx |-> lon + TILE_SIZE, maxy |-> TILE_SIZE]],
        rng |-> Advance(s0, SampleTiles)]

\* the stops i..n of the generator's loop, drawn from state st
RECURSIVE SampleStopsFrom(_, _, _)
SampleStopsFrom(i, n, st) ==
    IF i > n THEN [rows |-> <<>>, rng |-> st]
    ELSE LET radius  == IF Draw(st, 2) = 0 THEN 1 ELSE 5
             dir     == IF Draw(Advance(st, 1), 2) = 0 THEN 1 ELSE -1
             n_lines == 1 + Draw(Advance(st, 2), 2)
             lines   == [j \in 1..n_lines |->
                            IF Draw(Advance(st, 2 + j), 2) = 0 THEN A ELSE B]
             after   == Advance(st, 3 + n_lines)
             row     == [stop_id |-> StopId(i),
                         lon |-> CenterLon + radius * dir, lat |-> CenterLat,
                         lines |-> lines,
                         daily_passengers |-> 100 + 100 * Draw(after, 4),
                         has_shelter |-> Draw(Advance(after, 1), 4) < 3,
                         has_bench |-> Draw(Advance(after, 2), 4) < 2]
             rest    == SampleStopsFrom(i + 1, n, Advance(after, 3))
         IN [rows |-> <<row>> \o rest.rows, rng |-> rest.rng]

\* the generator without np.random.seed(42): it draws from the state it finds
generate_sample_stops_unseeded(st) == SampleStopsFrom(1, SampleStops, st)

\* IDFMDataLoader._generate_sample_stops: seeds the generator with 42
generate_sample_stops(st) == SampleStopsFrom(1, SampleStops, np_random_seed(42))

\* IDFMDataLoader._generate_sample_lines: no seed, three draws per line
generate_sample_lines(st) ==
    [rows |->
        [i \in 1..SampleLines |->
            [line_id |-> RouteName(i),
             line_type |-> Draw(Advance(st, 3 * (i - 1)), 3),
             total_stops |-> 10 + Draw(Advance(st, 3 * (i - 1) + 1), 4),
             daily_frequency |-> 20 + Draw(Advance(st, 3 * (i - 1) + 2), 4)]],
     rng |-> Advance(st, 3 * SampleLines)]

\* ClimateDataLoader.load_climate_tiles
load_climate_tiles(dir, yr, st) ==
    IF dir.climate = Absent THEN generate_sample_climate_data(yr)
    ELSE [rows |-> modules_convert_to_geodataframe(dir.climate), rng |-> st]

\* IDFMDataLoader.load_stops (the conversion adds the Point geometry, which
\* the tables carry as lon / lat)
load_stops(dir, st) ==
    IF dir.stops = Absent THEN generate_sample_stops(st)
    ELSE [rows |-> dir.stops, rng |-> st]

\* IDFMDataLoader.load_lines
load_lines(dir, st) ==
    IF dir.lines = Absent THEN generate_sample_lines(st)
    ELSE [rows |-> dir.lines, rng |-> st]

\* the body of load_data: the three loaders in order, on one generator
load_data(dir, yr, st) ==
    LET c == load_climate_tiles(dir, yr, st)
        s == load_stops(dir, c.rng)
        l == load_lines(dir, s.rng)
    IN [climate_gdf |-> c.rows, stops_gdf |-> s.rows, lines_df |-> l.rows,
        rng |-> l.rng]

----------------------------------------------------------------------------
(* Two runs of the pipeline on the same inputs *)

\* contents of data/climate/tas_<year>.csv, data/idfm/stops.csv and
\* data/idfm/lines.csv when present
ClimateFile == <<[lon |-> 0, lat |-> 0, temperature |-> 30],
                 [lon |-> 2, lat |-> 0, temperature |-> 30]>>

StopsFile ==
    <<[stop_id |-> StopId(1), lon |-> 3, lat |-> 1, lines |-> <<A, B>>,
       daily_passengers |-> 100, has_shelter |-> TRUE, has_bench |-> FALSE],
      [stop_id |-> StopId(2), lon |-> 5, lat |-> 1, lines |-> <<A, A>>,
       daily_passengers |-> 100, has_shelter |-> FALSE, has_bench |-> FALSE]>>

LinesFile == <<[line_id |-> A, line_type |-> 0, total_stops |-> 10,
                daily_frequency |-> 20]>>

Years == {2030, 2050}

\* states the generator of a new process can start in (seeded from the OS)
AmbientStates == {1, 6, 11}

InitRuns ==
    /\ path \in {"batch", "interactive"}
    /\ pc = "start"
    /\ tie_order \in TieOrders
    /\ year \in Years
    /\ data_dir \in [climate : {Absent, ClimateFile}, stops : {Absent, StopsFile},
                     lines : {Absent, LinesFile}]
    /\ ambient \in AmbientStates
    /\ rng = ambient
    /\ cache = <<>>
    /\ app_lines_df = <<>>
    /\ run = 0
    /\ first_run = <<>>
    /\ main_lines_df = <<>>
    /\ lines_df_hot_info = <<>>
    /\ tile_size = R(TILE_SIZE)
    /\ disk = <<>>
    /\ shown = <<>>
    /\ written = {}
    /\ weights_arg = <<>>
    /\ joined_stops = <<>>
    /\ line_stats = <<>>
    /\ NoSpatialInputs
    /\ NotScored

\* main.py 15-16: ClimateDataLoader() is called without its data_dir
\* argument, so main() raises TypeError before any table is written
Main ==
    /\ path = "batch" /\ pc = "start"
    /\ pc' = "TypeError"
    /\ UNCHANGED <<written, runVars, path, tie_order, df_mean_temp, climate_gdf, stops_gdf,
                   arrets_lignes, joined_stops, hot_stops_lines, hot_lines_df,
                   line_stats, scoringVars>>

\* app.py 98-123, 136-137: load_data under st.cache_data
LoadData ==
    /\ path = "interactive" /\ pc = "start"
    /\ LET r == IF cache # <<>> THEN cache @@ [rng |-> rng]
                ELSE load_data(data_dir, year, rng)
       IN /\ climate_gdf' = r.climate_gdf
          /\ stops_gdf' = r.stops_gdf
          /\ app_lines_df' = r.lines_df
          /\ rng' = r.rng
          /\ cache' = [climate_gdf |-> r.climate_gdf, stops_gdf |-> r.stops_gdf,
                       lines_df |-> r.lines_df]
    /\ pc' = "loaded"
    /\ UNCHANGED <<written, main_lines_df, lines_df_hot_info, tile_size, disk,
                   shown,
                   weights_arg, year, data_dir, ambient, run, first_run, path,
                   tie_order, df_mean_temp, arrets_lignes, joined_stops,
                   hot_stops_lines, hot_lines_df, line_stats, scoringVars>>

\* app.py 175
NewPriorityScorer ==
    /\ path = "interactive" /\ pc = "aggregated"
    /\ weights' = PriorityScorer_init(weights_arg).weights
    /\ pc' = "constructed"
    /\ UNCHANGED <<written, runVars, path, tie_order, df_mean_temp, climate_gdf, stops_gdf,
                   arrets_lignes, joined_stops, hot_stops_lines, hot_lines_df,
                   line_stats, lines_df_hot_validations, prioritized_lines,
                   scored_stops, scored_lines, top_stops, top_lines,
                   top_priority_stops, top_priority_lines>>

\* the tables a run leaves: hot_squares / stops_in_hot_zones /
\* prioritized_lines of main(), and the tables run_analysis displays
OutputTables ==
    [climate_gdf |-> climate_gdf, stops_gdf |-> stops_gdf,
     joined_stops |-> joined_stops, line_stats |-> line_stats,
     prioritized_lines |-> prioritized_lines,
     scored_stops |-> scored_stops, scored_lines |-> scored_lines,
     top_priority_stops |-> top_priority_stops,
     top_priority_lines |-> top_priority_lines]

\* the pipeline is started a second time on the same data, year and build:
\* by the button in the running Streamlit process, or in a new process
RunAgain ==
    /\ run = 0
    /\ pc \in {"lines_ranked", "TypeError"}
    /\ first_run' = [tables |-> OutputTables, top_stops |-> top_stops,
                     top_lines |-> top_lines, lines_df |-> app_lines_df,
                     ambient |-> ambient]
    /\ run' = 1
    /\ pc' = "start"
    /\ \/ path = "interactive" /\ UNCHANGED <<ambient, rng, cache>>
       \/ \E a \in AmbientStates : ambient' = a /\ rng' = a /\ cache' = <<>>
    /\ climate_gdf' = <<>>
    /\ stops_gdf' = <<>>
    /\ app_lines_df' = <<>>
    /\ joined_stops' = <<>>
    /\ hot_stops_lines' = <<>>
    /\ line_stats' = <<>>
    /\ weights' = <<>>
    /\ prioritized_lines' = <<>>
    /\ scored_stops' = <<>>
    /\ scored_lines' = <<>>
    /\ top_stops' = 0
    /\ top_lines' = 0
    /\ top_priority_stops' = <<>>
    /\ top_priority_lines' = <<>>
    /\ UNCHANGED <<path, tie_order, weights_arg, year, data_dir, df_mean_temp,
                   arrets_lignes, hot_lines_df, lines_df_hot_validations,
                   main_lines_df, lines_df_hot_info, tile_size, disk,
                   shown, written>>

NextRuns ==
    \/ Main
    \/ LoadData
    \/ JoinStopsWithClimate
    \/ CalculateStopHeatExposure
    \/ AggregateByLine
    \/ NewPriorityScorer
    \/ ScoreStops
    \/ ScoreLines
    \/ RankStops
    \/ RankLines
    \/ RunAgain

SpecRuns == InitRuns /\ [][NextRuns]_vars

SecondRunDone == run = 1 /\ pc \in {"lines_ranked", "TypeError"}

\* C9: a second run on the same inputs (same files or absence of files, same
\* year, same top_n parameters and weights) leaves the same output tables as
\* the first: same rows, same order, same scores, same ranks.
C9_RepeatedRunIdentical ==
    (/\ SecondRunDone
     /\ top_stops = first_run.top_stops
     /\ top_lines = first_run.top_lines)
        => OutputTables = first_run.tables

\* the second run ended in a new process whose generator started in another
\* state, with generated stops and cells, and ranked both tables
C9_Witness ==
    /\ SecondRunDone
    /\ path = "interactive"
    /\ data_dir.stops = Absent /\ data_dir.climate = Absent
    /\ ambient # first_run.ambient
    /\ top_stops = first_run.top_stops /\ top_lines = first_run.top_lines
    /\ Len(top_priority_stops) >= 2
    /\ top_priority_lines # <<>>

----------------------------------------------------------------------------
(* Claims on the priority score *)

InPercent(x) == ~IsNaN(x) /\ RLe(R(0), x) /\ RLe(x, R(100))

\* 100 * sum over the pairs <<weight name, score column>> of weight * score
Weighted100(row, pairs) ==
    RMul(R(100), SumSeq([k \in 1..Len(pairs) |->
                            RMul(weights[pairs[k][1]], row[pairs[k][2]])]))

LineScorerPairs ==
    <<(<<"temperature", "temp_score">>), (<<"stops", "stops_score">>),
      (<<"air_conditioning", "ac_score">>), (<<"validations", "validations_score">>)>>

PriorityScorerPairs ==
    <<(<<"temperature", "temp_score">>), (<<"passenger_volume", "passenger_score">>),
      (<<"lack_of_shelter", "shelter_score">>), (<<"lack_of_bench", "bench_score">>)>>

\* C12: every scored row's priority_score is 100 times the weighted sum of
\* its normalised factor scores, and is a number in [0, 100].
C12_PriorityIsWeightedSumInRange ==
    /\ \A i \in 1..Len(prioritized_lines) :
          /\ prioritized_lines[i].priority_score =
                Weighted100(prioritized_lines[i], LineScorerPairs)
          /\ InPercent(prioritized_lines[i].priority_score)
    /\ \A i \in 1..Len(scored_stops) :
          /\ scored_stops[i].priority_score =
                Weighted100(scored_stops[i], PriorityScorerPairs)
          /\ InPercent(scored_stops[i].priority_score)
    /\ \A i \in 1..Len(scored_lines) :
          /\ scored_lines[i].priority_score =
                Weighted100(scored_lines[i], PriorityScorerPairs)
          /\ InPercent(scored_lines[i].priority_score)

----------------------------------------------------------------------------
(* The batch run: main() from the loading of the registry files on *)

\* src/idfm_loader.py IDFMDataLoader.load_stops_ref: the bus rows of
\* arrets.csv; arrgeopoint is "lat,lon"
load_stops_ref(file) ==
    LET df_bus == SelectSeq(file, LAMBDA r : r.arrtype = "bus")
    IN [i \in 1..Len(df_bus) |->
          [arrid |-> df_bus[i].arrid,
           lat |-> df_bus[i].arrgeopoint[1], lon |-> df_bus[i].arrgeopoint[2]]]

\* src/idfm_loader.py IDFMDataLoader.load_lines: the bus lines of lignes.csv
\* that are not night buses, four columns kept
batch_load_lines(file) ==
    LET kept == SelectSeq(file, LAMBDA r : r.transportsubmode # "nightBus"
                                            /\ r.transportmode = "bus")
    IN [i \in 1..Len(kept) |->
          [id_line |-> kept[i].id_line, name_line |-> kept[i].name_line,
           id_groupoflines |-> kept[i].id_groupoflines,
           air_conditioning |-> kept[i].air_conditioning]]

\* pd.merge(left, right, how="left"): every left row, once per matching right
\* row, and once with nulls when no right row matches
MergeLeft(left, right, left_on, right_on, nulls) ==
    Concat([i \in 1..Len(left) |->
        LET m == SelectSeq(right, LAMBDA r : r[right_on] = left[i][left_on])
        IN IF m = <<>> THEN <<left[i] @@ nulls>>
           ELSE [j \in 1..Len(m) |-> left[i] @@ m[j]]])

\* get_validations_lines with how="inner": lines without validation data are
\* dropped
get_validations_lines_inner(lines, file) ==
    LET merged == MergeInner(lines, file, "id_groupoflines", "ligne_adm")
    IN [i \in 1..Len(merged) |->
          [k \in (DOMAIN merged[i]) \ {"ligne_adm"} |-> merged[i][k]]]

\* src/idfm_loader.py IDFMDataLoader.get_validations_lines
get_validations_lines(lines, file) ==
    LET merged == MergeLeft(lines, file, "id_groupoflines", "ligne_adm",
                            [ligne_adm |-> "", nb_validations |-> NaN])
    IN [i \in 1..Len(merged) |->
          [k \in (DOMAIN merged[i]) \ {"ligne_adm"} |-> merged[i][k]]]

\* main.py 33: stops_gdf = idfm_loader.load_stops_ref()
LoadStopsRef ==
    /\ path = "batch" /\ pc = "cells_loaded"
    /\ IF Missing("arrets.csv")
       THEN pc' = "FileNotFoundError" /\ UNCHANGED stops_gdf
       ELSE stops_gdf' = load_stops_ref(data_dir.arrets) /\ pc' = "stops_loaded"
    /\ UNCHANGED <<written, runVars, path, tie_order, df_mean_temp, climate_gdf,
                   arrets_lignes, joined_stops, hot_stops_lines, hot_lines_df,
                   line_stats, scoringVars>>

\* main.py 37: lines_df = idfm_loader.load_lines()
LoadLines ==
    /\ path = "batch" /\ pc = "stops_loaded"
    /\ IF Missing("lignes.csv")
       THEN pc' = "FileNotFoundError" /\ UNCHANGED main_lines_df
       ELSE main_lines_df' = batch_load_lines(data_dir.lignes) /\ pc' = "loaded"
    /\ UNCHANGED <<written, weights_arg, year, data_dir, ambient, rng, cache,
                   app_lines_df, run, first_run, tile_size, disk, shown,
                   lines_df_hot_info, path, tie_order,
                   df_mean_temp, climate_gdf, stops_gdf, arrets_lignes, joined_stops,
                   hot_stops_lines, hot_lines_df, line_stats, scoringVars>>

\* main.py 56-58: lines_df.merge(hot_lines_df, id_line = route_id, inner)
MergeLinesInfo ==
    /\ path = "batch" /\ pc = "aggregated" /\ data_dir # <<>>
    /\ lines_df_hot_info' = MergeInner(main_lines_df, hot_lines_df, "id_line", "route_id")
    /\ pc' = "merged"
    /\ UNCHANGED <<written, weights_arg, year, data_dir, ambient, rng, cache,
                   app_lines_df, run, first_run, tile_size, disk, shown,
                   main_lines_df, path, tie_order,
                   df_mean_temp, climate_gdf, stops_gdf, arrets_lignes, joined_stops,
                   hot_stops_lines, hot_lines_df, line_stats, scoringVars>>

\* main.py 59: lines_df_hot_validations = get_validations_lines(lines_df_hot_info)
GetValidationsLines ==
    /\ path = "batch" /\ pc = "merged"
    /\ IF Missing("validations_adm.csv")
       THEN pc' = "FileNotFoundError" /\ UNCHANGED lines_df_hot_validations
       ELSE /\ lines_df_hot_validations' =
                  get_validations_lines(lines_df_hot_info, data_dir.validations)
            /\ pc' = "validated"
    /\ UNCHANGED <<written, runVars, path, tie_order, df_mean_temp, climate_gdf,
                   stops_gdf, arrets_lignes, joined_stops, hot_stops_lines,
                   hot_lines_df, line_stats, weights, prioritized_lines, scored_stops,
                   scored_lines, top_stops, top_lines, top_priority_stops,
                   top_priority_lines>>

\* main.py 63-70: scorer = LineScorer(weights={...})
NewLineScorer ==
    /\ path = "batch" /\ pc = "validated"
    /\ LET r == LineScorer_init(weights_arg)
       IN /\ pc' = IF r.raised = "none" THEN "constructed" ELSE r.raised
          /\ weights' = IF r.raised = "none" THEN r.weights ELSE weights
    /\ UNCHANGED <<written, runVars, path, tie_order, df_mean_temp, climate_gdf,
                   stops_gdf, arrets_lignes, joined_stops, hot_stops_lines,
                   hot_lines_df, line_stats, lines_df_hot_validations,
                   prioritized_lines, scored_stops, scored_lines, top_stops,
                   top_lines, top_priority_stops, top_priority_lines>>

\* main.py 76-101: statistics and the top 20 are logged, then
\* prioritized_lines.csv is written
Report ==
    /\ path = "batch" /\ pc = "scored" /\ data_dir # <<>>
    /\ written' = written \cup {"prioritized_lines.csv"}
    /\ pc' = "done"
    /\ UNCHANGED <<runVars, path, tie_order, df_mean_temp, climate_gdf, stops_gdf,
                   arrets_lignes, joined_stops, hot_stops_lines, hot_lines_df,
                   line_stats, scoringVars>>

NextBatch ==
    \/ LoadClimateTilesFromS3
    \/ LoadStopsRef
    \/ LoadLines
    \/ JoinStopsWithClimate
    \/ GetStopsLines
    \/ GroupByRoute
    \/ MergeLinesInfo
    \/ GetValidationsLines
    \/ NewLineScorer
    \/ CalculatePriorityScores
    \/ Report

\* what a batch run starts from, the files and the fetched samples apart
BatchStart ==
    /\ path = "batch"
    /\ pc = "start"
    /\ tie_order \in TieOrders
    /\ climate_gdf = <<>>
    /\ stops_gdf = <<>>
    /\ joined_stops = <<>>
    /\ hot_stops_lines = <<>>
    /\ hot_lines_df = <<>>
    /\ line_stats = <<>>
    /\ NotScored
    /\ year = 0
    /\ ambient = 0
    /\ rng = 0
    /\ cache = <<>>
    /\ app_lines_df = <<>>
    /\ run = 0
    /\ first_run = <<>>
    /\ main_lines_df = <<>>
    /\ lines_df_hot_info = <<>>
    /\ tile_size = R(TILE_SIZE)
    /\ disk = <<>>
    /\ shown = <<>>
    /\ written = {}

\* a row of lignes.csv
Ligne(id, family, ac, mode, submode) ==
    [id_line |-> id, name_line |-> id, id_groupoflines |-> family,
     air_conditioning |-> ac, transportmode |-> mode, transportsubmode |-> submode]

\* contents of validations_adm.csv: no row, one line family, both families,
\* two rows of one family
ValidationFiles ==
    {<<>>,
     <<[ligne_adm |-> "FA", nb_validations |-> R(10)]>>,
     <<[ligne_adm |-> "FA", nb_validations |-> R(10)],
       [ligne_adm |-> "FB", nb_validations |-> R(20)]>>,
     <<[ligne_adm |-> "FA", nb_validations |-> R(10)],
       [ligne_adm |-> "FA", nb_validations |-> R(5)]>>}

SourceNames ==
    {"s3", "arrets.csv", "lignes.csv", "arrets-lignes.csv", "validations_adm.csv"}

\* no source missing, or exactly one
MissingSets == {{}} \cup {{f} : f \in SourceNames}

\* contents of arrets.csv: the bus stops s1..s(n) at the given points and a
\* metro stop
ArretsFile(pts) ==
    [i \in 1..Len(pts) |->
        [arrid |-> StopId(i), arrtype |-> "bus",
         arrgeopoint |-> <<pts[i].lat, pts[i].lon>>]]
    \o <<[arrid |-> <<"M1">>, arrtype |-> "metro", arrgeopoint |-> <<3, 3>>]>>

\* contents of lignes.csv: the bus lines A and B in the given order with the
\* given air conditioning statuses, a night bus and a metro line
LignesFile(order, acA, acB) ==
    [i \in 1..2 |-> IF order[i] = A THEN Ligne(A, "FA", acA, "bus", "regularBus")
                                     ELSE Ligne(B, "FB", acB, "bus", "regularBus")]
    \o <<Ligne(<<" ", "A">>, "FA", "true", "bus", "nightBus"),
         Ligne(<<"M1">>, "FM", "true", "metro", "metro")>>

\* weights passed to LineScorer: those of main.py, a dictionary summing to
\* 0.9, one weighting the temperature alone, with and without the other
\* keys, and the empty dictionary
BatchWeights ==
    {MainWeights, <<>>,
     [temperature |-> Frac(3, 10), stops |-> Frac(1, 10),
      air_conditioning |-> Frac(1, 4), validations |-> Frac(1, 4)],
     [temperature |-> R(1), stops |-> R(0), air_conditioning |-> R(0),
      validations |-> R(0)],
     [temperature |-> R(1)]}

InitBatch ==
    /\ BatchStart
    /\ df_mean_temp \in {<<[lon |-> 2, lat |-> 2, temperature |-> 30]>>,
                         <<[lon |-> 6, lat |-> 2, temperature |-> 35],
                           [lon |-> 2, lat |-> 2, temperature |-> 30]>>,
                         <<[lon |-> 10, lat |-> 2, temperature |-> 30]>>}
    /\ \E lists \in [1..2 -> BatchLineLists] : arrets_lignes = MembershipRows(lists)
    /\ weights_arg \in BatchWeights
    /\ \E m \in MissingSets, v \in ValidationFiles, acA \in {"true", "unknown"} :
         data_dir = [missing |-> m,
                     arrets |-> ArretsFile(<<[lon |-> 3, lat |-> 3],
                                             [lon |-> 5, lat |-> 3]>>),
                     lignes |-> LignesFile(<<A, B>>, acA, "false"),
                     validations |-> v]

SpecBatch == InitBatch /\ [][NextBatch]_vars

----------------------------------------------------------------------------
(* The three-cell scenario: cells of 25, 30 and 35 degrees side by side, *)
(* stop s1 in the first, s2 and s3 in the second, s4 in the third; line A *)
(* serves s1, s2, s3 and line B serves s2, s3, s4                          *)

\* the samples as load_climate_tiles_from_s3 returns them, hottest first
ScenarioSamples ==
    <<[lon |-> 10, lat |-> 2, temperature |-> 35],
      [lon |-> 6, lat |-> 2, temperature |-> 30],
      [lon |-> 2, lat |-> 2, temperature |-> 25]>>

\* where the four stops may stand, each strictly inside its cell
ScenarioPoints ==
    {<<[lon |-> a, lat |-> 2], [lon |-> b, lat |-> 2],
       [lon |-> c, lat |-> 2], [lon |-> d, lat |-> 2]>> :
        a \in {1, 3}, b \in {5, 7}, c \in {5, 7}, d \in {9, 11}}

ScenarioWeights ==
    {[temperature |-> R(1), stops |-> R(0), air_conditioning |-> R(0),
      validations |-> R(0)],
     [temperature |-> R(1)]}

InitScenario ==
    /\ BatchStart
    /\ df_mean_temp = ScenarioSamples
    /\ arrets_lignes = MembershipRows(<<<<A>>, <<A, B>>, <<A, B>>, <<B>>>>)
    /\ weights_arg \in ScenarioWeights
    /\ \E pts \in ScenarioPoints, v \in ValidationFiles,
          order \in {<<A, B>>, <<B, A>>} :
         data_dir = [missing |-> {},
                     arrets |-> ArretsFile(pts),
                     lignes |-> LignesFile(order, "false", "false"),
                     validations |-> v]

SpecScenario == InitScenario /\ [][NextBatch]_vars

\* the rows of a table about one line
RowsOf(df, col, id) == SelectSeq(df, LAMBDA r : r[col] = id)

\* C13: in the three-cell scenario line A has mean temperature (25+30+30)/3
\* and line B (30+30+35)/3 after join and aggregation, and scoring with all
\* the weight on the temperature ends with line B at rank 1 and line A at
\* rank 2.
C13_ScenarioRanksHotterLineFirst ==
    /\ pc \in {"aggregated", "merged", "validated", "constructed", "scored", "done"} =>
          /\ Len(hot_lines_df) = 2
          /\ RowsOf(hot_lines_df, "route_id", A)[1].temperature = Frac(85, 3)
          /\ RowsOf(hot_lines_df, "route_id", B)[1].temperature = Frac(95, 3)
    /\ pc # "KeyError"
    /\ pc \in {"scored", "done"} =>
          /\ Len(RowsOf(prioritized_lines, "id_line", B)) = 1
          /\ RowsOf(prioritized_lines, "id_line", B)[1].rank = 1
          /\ Len(RowsOf(prioritized_lines, "id_line", A)) = 1
          /\ RowsOf(prioritized_lines, "id_line", A)[1].rank = 2

----------------------------------------------------------------------------
(* The amenity scenario: a LineScorer weighting the temperature and the *)
(* air conditioning by one half each, applied to a table of lines       *)

AmenityWeights ==
    {[temperature |-> Frac(1, 2), stops |-> R(0), air_conditioning |-> Frac(1, 2),
      validations |-> R(0)],
     [temperature |-> Frac(1, 2), air_conditioning |-> Frac(1, 2)]}

AmenityRows ==
    {[temperature |-> R(t), stop_id |-> n, nb_validations |-> v,
      air_conditioning |-> ac] :
        t \in {30, 35}, n \in {1, 2}, v \in {NaN, R(10)},
        ac \in {"true", "false"}}

\* main() after get_validations_lines, the scorer not yet constructed
InitAmenity ==
    /\ path = "batch"
    /\ pc = "validated"
    /\ tie_order \in TieOrders
    /\ weights_arg \in AmenityWeights
    /\ NoRunState
    /\ \E rows \in SeqsUpTo(AmenityRows, MaxRows) :
          lines_df_hot_validations =
              [i \in 1..Len(rows) |-> [route_id |-> RouteName(i)] @@ rows[i]]
    /\ weights = <<>>
    /\ joined_stops = <<>>
    /\ line_stats = <<>>
    /\ NoSpatialInputs
    /\ NothingScored

NextAmenity ==
    \/ NewLineScorer
    \/ CalculatePriorityScores

SpecAmenity == InitAmenity /\ [][NextAmenity]_vars

\* C14: with the weights split one half on the temperature and one half on
\* the air conditioning, a line whose status is "true" and whose temperature
\* score is 1.0 receives the priority score 50.0 exactly.
C14_HalfAndHalfGivesFifty ==
    pc = "scored" =>
        \A i \in 1..Len(prioritized_lines) :
            (/\ prioritized_lines[i].air_conditioning = "true"
             /\ prioritized_lines[i].temp_score = R(1))
            => prioritized_lines[i].priority_score = R(50)

----------------------------------------------------------------------------
(* Claims on the cell polygons *)

\* the square of side TILE_SIZE centred on the sample's point
Centred(c) ==
    /\ 2 * c.minx = 2 * c.lon - TILE_SIZE
    /\ 2 * c.maxx = 2 * c.lon + TILE_SIZE
    /\ 2 * c.miny = 2 * c.lat - TILE_SIZE
    /\ 2 * c.maxy = 2 * c.lat + TILE_SIZE

\* C15: every cell polygon built from a sample (lon, lat, value) is the
\* square of side TILE_SIZE whose centre is (lon, lat), on the batch path and
\* on the interactive path alike.
C15_CellsCentredOnSample ==
    \A i \in 1..Len(climate_gdf) : Centred(climate_gdf[i])

----------------------------------------------------------------------------
(* Claims on the batch run *)

\* the weights handed to the scorer do not sum to one
InvalidWeights == weights_arg # <<>> /\ ~IsClose(ArgSum, R(1))

\* C16: the weights are validated when the scorer is constructed and before
\* any data is processed: with invalid weights the run fails before any
\* loading, join, aggregation or output step has executed.
C16_InvalidWeightsFailBeforeData ==
    InvalidWeights =>
        /\ pc \in {"start", "ValueError"}
        /\ climate_gdf = <<>>
        /\ stops_gdf = <<>>
        /\ joined_stops = <<>>
        /\ hot_lines_df = <<>>
        /\ written = {}

\* the run has stopped on an error raised by one of its stages
Failed == pc \in {"FetchError", "FileNotFoundError", "ValueError", "KeyError"}

\* C17: when a stage of the batch run raises, none of hot_squares.csv,
\* stops_in_hot_zones.csv and prioritized_lines.csv has been written by the
\* run.
C17_NoOutputWrittenOnFailure ==
    Failed => written = {}

\* the validation rows of a line's family
ValidationsOf(line) ==
    SelectSeq(data_dir.validations, LAMBDA v : v.ligne_adm = line.id_groupoflines)

\* C18: get_validations_lines keeps every line of its input: a line whose
\* family has no row in the validation table is still in the result, once,
\* with a null validation count; no line is dropped.
C18_ValidationMergeKeepsEveryLine ==
    pc = "validated" =>
        \A i \in 1..Len(lines_df_hot_info) :
            LET line == lines_df_hot_info[i]
                out == RowsOf(lines_df_hot_validations, "id_line", line.id_line)
            IN /\ out # <<>>
               /\ \A j \in 1..Len(out) : out[j].temperature = line.temperature
               /\ ValidationsOf(line) = <<>> =>
                     Len(out) = 1 /\ IsNaN(out[1].nb_validations)

\* the merge has run on two lines, one with validation data and one without
C18_Witness ==
    /\ pc = "validated"
    /\ Len(lines_df_hot_info) = 2
    /\ \E i, j \in 1..2 :
          /\ ValidationsOf(lines_df_hot_info[i]) = <<>>
          /\ ValidationsOf(lines_df_hot_info[j]) # <<>>

\* C19: a line whose validation count is null is scored with a defined
\* default: after calculate_priority_scores neither its validations_score nor
\* its priority_score is undefined.
C19_NullValidationsScoredWithDefault ==
    pc \in {"scored", "done"} =>
        \A i \in 1..Len(prioritized_lines) :
            IsNaN(prioritized_lines[i].nb_validations) =>
                /\ ~IsNaN(prioritized_lines[i].validations_score)
                /\ ~IsNaN(prioritized_lines[i].priority_score)

----------------------------------------------------------------------------
(* Claims on unavailable sources *)

\* a file the interactive loaders were asked for does not exist
SourceMissing ==
    /\ path = "interactive"
    /\ \/ data_dir.climate = Absent
       \/ data_dir.stops = Absent
       \/ data_dir.lines = Absent

\* C20: when a requested source is unavailable the loader surfaces an error
\* and substitutes no other data: the run never gets to hold loaded tables,
\* to join or to score.
C20_MissingSourceIsAnError ==
    SourceMissing =>
        /\ pc \in {"start", "FileNotFoundError"}
        /\ climate_gdf = <<>>
        /\ stops_gdf = <<>>
        /\ joined_stops = <<>>

----------------------------------------------------------------------------
(* Claims on empty and duplicated tables of the batch run *)

\* the aggregation of main.py 49-53 has returned
PastAggregation ==
    pc \in {"aggregated", "merged", "validated", "constructed", "scored", "done",
            "KeyError"}

\* C21: when the aggregation receives zero joined records it fails with an
\* empty-input error: the run does not go on to scoring and reporting with
\* an empty table.
C21_EmptyInputStopsTheRun ==
    (path = "batch" /\ PastAggregation) => hot_stops_lines # <<>>

----------------------------------------------------------------------------
(* Both pipelines, for the claims on what a stage does to its input *)

InitFrames == InitBatch \/ (InitRuns /\ path = "interactive")

NextFrames == NextBatch \/ NextRuns

SpecFrames == InitFrames /\ [][NextFrames]_vars

\* the step is the stage that takes the run from one position to another
Stage(from, to) == pc = from /\ pc' \in to

----------------------------------------------------------------------------
(* Two adjacent cells and stops on their edges *)

\* points in the interior of a cell, on the shared edge, on the shared
\* corner, on an outer edge and on an outer corner of the cells
\* [0,4] x [0,4] and [4,8] x [0,4]
BoundaryPoints ==
    {[lon |-> 3, lat |-> 3], [lon |-> 5, lat |-> 3], [lon |-> 4, lat |-> 3],
     [lon |-> 4, lat |-> 4], [lon |-> 8, lat |-> 3], [lon |-> 0, lat |-> 0]}

\* the samples of the two cells: their centres on the batch path, their
\* lower left corners on the interactive path
AdjacentSamples(p) ==
    IF p = "batch"
    THEN <<[lon |-> 6, lat |-> 2, temperature |-> 35],
           [lon |-> 2, lat |-> 2, temperature |-> 30]>>
    ELSE <<[lon |-> 4, lat |-> 0, temperature |-> 35],
           [lon |-> 0, lat |-> 0, temperature |-> 30]>>

InitBoundary ==
    /\ path \in {"batch", "interactive"}
    /\ pc = "start"
    /\ tie_order \in TieOrders
    /\ df_mean_temp = AdjacentSamples(path)
    /\ \E pts \in SeqsUpTo(BoundaryPoints, MaxStops) :
         IF path = "batch"
         THEN /\ stops_gdf = [i \in 1..Len(pts) |->
                     [arrid |-> StopId(i), lon |-> pts[i].lon, lat |-> pts[i].lat]]
              /\ arrets_lignes = MembershipRows([i \in 1..Len(pts) |-> <<A, B>>])
         ELSE /\ stops_gdf = [i \in 1..Len(pts) |->
                     [stop_id |-> StopId(i), lon |-> pts[i].lon, lat |-> pts[i].lat,
                      lines |-> <<A, B>>, daily_passengers |-> 100 * i,
                      has_shelter |-> (i % 2 = 0), has_bench |-> FALSE]]
              /\ arrets_lignes = <<>>
    /\ climate_gdf = <<>>
    /\ joined_stops = <<>>
    /\ hot_stops_lines = <<>>
    /\ hot_lines_df = <<>>
    /\ line_stats = <<>>
    /\ NotScored
    /\ weights_arg = <<>>
    /\ NoRunState

SpecBoundary == InitBoundary /\ [][NextSpatial]_vars

\* the point of a stop is on the boundary of a cell
OnBoundary(s, c) ==
    /\ c.minx <= s.lon /\ s.lon <= c.maxx /\ c.miny <= s.lat /\ s.lat <= c.maxy
    /\ s.lon \in {c.minx, c.maxx} \/ s.lat \in {c.miny, c.maxy}

\* the point of a stop is in the interior of a cell
InInterior(s, c) ==
    c.minx < s.lon /\ s.lon < c.maxx /\ c.miny < s.lat /\ s.lat < c.maxy

\* the joined rows that pair a stop with a cell
Pairs(s, c) ==
    SelectSeq(joined_stops, LAMBDA r : /\ StopKey(r) = StopKey(s)
                                       /\ r.lon_right = c.lon
                                       /\ r.lat_right = c.lat)

\* C23: the join excludes the boundary: a stop whose point is on the
\* boundary of a cell is not joined to that cell, and a stop on the shared
\* edge of two cells and in the interior of none is absent from the output.
C23_BoundaryStopsNotJoined ==
    pc = "joined" =>
        \A i \in 1..Len(stops_gdf) :
            /\ \A j \in 1..Len(climate_gdf) :
                  OnBoundary(stops_gdf[i], climate_gdf[j]) =>
                      Pairs(stops_gdf[i], climate_gdf[j]) = <<>>
            /\ (\A j \in 1..Len(climate_gdf) :
                    ~InInterior(stops_gdf[i], climate_gdf[j]))
               => StopKey(stops_gdf[i]) \notin StopKeys(joined_stops)

\* the join has run on a stop of the shared edge and a stop of an interior
C23_Witness ==
    /\ pc = "joined"
    /\ Len(climate_gdf) = 2
    /\ \E i \in 1..Len(stops_gdf) :
          /\ OnBoundary(stops_gdf[i], climate_gdf[1])
          /\ OnBoundary(stops_gdf[i], climate_gdf[2])
    /\ joined_stops # <<>>

----------------------------------------------------------------------------
(* Claims on absent weights *)

LineScorerFactors == {"temperature", "stops", "air_conditioning", "validations"}

\* C24: a scorer whose weights are absent (an empty mapping, or a mapping
\* without the weight of a factor it uses) is rejected at construction: it
\* is never constructed, never scores with other weights and never fails
\* only later while scoring.
C24_AbsentWeightsRejected ==
    (path = "batch" /\ ~(LineScorerFactors \subseteq DOMAIN weights_arg)) =>
        pc \notin {"constructed", "scored", "done", "KeyError"}

----------------------------------------------------------------------------
(* The cell builders on any tile size and on samples with real coordinates *)

\* src/climate_loader.py 93-99 with self.TILE_SIZE = tile and float
\* coordinates: no check, NaN propagates into the bounds of the box
convert_to_geodataframe_tile(df, tile) ==
    LET half_tile == RDiv(tile, R(2))
    IN [i \in 1..Len(df) |->
          df[i] @@ [minx |-> RSub(df[i].lon, half_tile),
                    miny |-> RSub(df[i].lat, half_tile),
                    maxx |-> RAdd(df[i].lon, half_tile),
                    maxy |-> RAdd(df[i].lat, half_tile)]]

\* src/modules/climate_loader.py 112-118, likewise
modules_convert_to_geodataframe_tile(df, tile) ==
    [i \in 1..Len(df) |->
        df[i] @@ [minx |-> df[i].lon, miny |-> df[i].lat,
                  maxx |-> RAdd(df[i].lon, tile), maxy |-> RAdd(df[i].lat, tile)]]

\* samples with a finite or an undefined longitude and latitude
RealSamples ==
    {[lon |-> x, lat |-> y, temperature |-> 30] :
        x \in {R(2), R(6), NaN}, y \in {R(2), NaN}}

TileSizes == {R(-4), R(0), R(4)}

InitCells ==
    /\ path \in {"batch", "interactive"}
    /\ pc = "start"
    /\ tie_order \in TieOrders
    /\ df_mean_temp \in SeqsUpTo(RealSamples, MaxCells)
    /\ climate_gdf = <<>>
    /\ stops_gdf = <<>>
    /\ arrets_lignes = <<>>
    /\ joined_stops = <<>>
    /\ hot_stops_lines = <<>>
    /\ hot_lines_df = <<>>
    /\ line_stats = <<>>
    /\ NotScored
    /\ weights_arg = <<>>
    /\ year = 0
    /\ data_dir = <<>>
    /\ ambient = 0
    /\ rng = 0
    /\ cache = <<>>
    /\ app_lines_df = <<>>
    /\ run = 0
    /\ first_run = <<>>
    /\ main_lines_df = <<>>
    /\ lines_df_hot_info = <<>>
    /\ tile_size \in TileSizes
    /\ disk = <<>>
    /\ shown = <<>>
    /\ written = {}

\* climate_loader.py 91: return self.convert_to_geodataframe(df_mean_temp)
ConvertToGeodataframe ==
    /\ path = "batch" /\ pc = "start"
    /\ climate_gdf' = convert_to_geodataframe_tile(df_mean_temp, tile_size)
    /\ pc' = "built"
    /\ UNCHANGED <<written, runVars, path, tie_order, df_mean_temp, stops_gdf,
                   arrets_lignes, joined_stops, hot_stops_lines, hot_lines_df,
                   line_stats, scoringVars>>

\* modules/climate_loader.py 49: return self._convert_to_geodataframe(df)
ModulesConvertToGeodataframe ==
    /\ path = "interactive" /\ pc = "start"
    /\ climate_gdf' = modules_convert_to_geodataframe_tile(df_mean_temp, tile_size)
    /\ pc' = "built"
    /\ UNCHANGED <<written, runVars, path, tie_order, df_mean_temp, stops_gdf,
                   arrets_lignes, joined_stops, hot_stops_lines, hot_lines_df,
                   line_stats, scoringVars>>

NextCells ==
    \/ ConvertToGeodataframe
    \/ ModulesConvertToGeodataframe

SpecCells == InitCells /\ [][NextCells]_vars

\* the builder's input is invalid: the tile size is not positive or a
\* coordinate of a sample is not finite
InvalidCellInput ==
    \/ RLe(tile_size, R(0))
    \/ \E i \in 1..Len(df_mean_temp) :
          IsNaN(df_mean_temp[i].lon) \/ IsNaN(df_mean_temp[i].lat)

\* C25: with a tile size <= 0 or a sample with a non-finite coordinate the
\* cell builder fails with an invalid-input error and builds no cell.
C25_InvalidCellInputRejected ==
    InvalidCellInput => (pc \in {"start", "ValueError"} /\ climate_gdf = <<>>)

----------------------------------------------------------------------------
(* Claims on the batch run as main() starts it *)

\* C26: when every collaborator succeeds, a run started by main() passes
\* through its stages to the state in which prioritized_lines.csv is
\* written; no stage fails for a reason internal to the program, such as a
\* constructor called without a required argument.
C26_MainRaisesNoInternalError ==
    path = "batch" => pc # "TypeError"

----------------------------------------------------------------------------
(* Claims on the final table of the batch run *)

\* the line ids of a table
LineIds(df) == {df[i].id_line : i \in 1..Len(df)}

\* the lines of the registry that have a joined stop
ExpectedLines ==
    LineIds(main_lines_df) \cap {hot_stops_lines[i].route_id : i \in 1..Len(hot_stops_lines)}

\* C27: the final ranked table of the batch run has exactly one row per
\* line id, the ids being the lines of the registry that have a joined stop:
\* neither the metadata merge nor the validation merge duplicates a line,
\* however many validation rows share one ligne_adm.
C27_OneRowPerLine ==
    pc \in {"scored", "done"} =>
        /\ LineIds(prioritized_lines) = ExpectedLines
        /\ Len(prioritized_lines) = Cardinality(ExpectedLines)

----------------------------------------------------------------------------
(* The summary statistics *)

\* the rows whose air_conditioning entry is one of the given strings; a
\* missing entry equals none (isin and == are False on NaN)
WithStatus(scored_df, statuses) ==
    SelectSeq(scored_df, LAMBDA r : /\ r.air_conditioning # MissingStatus
                                    /\ r.air_conditioning \in statuses)

\* src/scoring.py LineScorer.get_summary_statistics: the number of lines and
\* the three amenity counts (the mean, median, minimum and maximum of
\* priority_score are not part of the counts)
get_summary_statistics(scored_df) ==
    [total_lines |-> Len(scored_df),
     lines_without_ac |-> Len(WithStatus(scored_df, {"false", "unknown"})),
     lines_partial_ac |-> Len(WithStatus(scored_df, {"partial"})),
     lines_full_ac |-> Len(WithStatus(scored_df, {"true"}))]

\* the rows to which get_ac_score gives a score
WithAcScore(scored_df, score) ==
    SelectSeq(scored_df, LAMBDA r : get_ac_score(r.air_conditioning) = score)

\* C28: in the summary statistics of a scored table the three amenity
\* counts add up to total_lines, and they count the lines to which
\* get_ac_score gives 1.0, 0.5 and 0.0, lines with a missing or unrecognised
\* status included.
C28_AmenityCountsPartition ==
    (path = "batch" /\ pc = "scored") =>
        LET stats == get_summary_statistics(prioritized_lines)
        IN /\ stats.lines_without_ac + stats.lines_partial_ac + stats.lines_full_ac
                 = stats.total_lines
           /\ stats.lines_without_ac = Len(WithAcScore(prioritized_lines, R(1)))
           /\ stats.lines_partial_ac = Len(WithAcScore(prioritized_lines, Frac(1, 2)))
           /\ stats.lines_full_ac = Len(WithAcScore(prioritized_lines, R(0)))

----------------------------------------------------------------------------
(* The dashboard of the batch path: streamlit_app.py *)

MaxRuns == 2

\* the files of data/output in the order the dashboard reads them
OutputFiles == <<"hot_squares.csv", "stops_in_hot_zones.csv", "prioritized_lines.csv">>

\* a file that does not exist; 0 is a run made before this process started
NoFile == -1

\* how `python main.py year percentile` can end: on the TypeError of main.py
\* 16, on an error raised after the first two files are written (main.py
\* 48-74), or after the third file is written (main.py 99)
RunOutcomes == {"TypeError", "FileNotFoundError", "done"}

\* the files a run has written when it ends
WrittenBy(outcome) ==
    IF outcome = "done" THEN {1, 2, 3}
    ELSE IF outcome = "FileNotFoundError" THEN {1, 2}
    ELSE {}

\* streamlit_app.py 67-91: the tables are shown when the three files
\* exist; load_data() takes no argument and is decorated with st.cache_data,
\* so its first result is returned on every later call
render(files, cached) ==
    IF \E i \in 1..3 : files[i] = NoFile
    THEN [shown |-> <<>>, cache |-> cached]
    ELSE IF cached # <<>> THEN [shown |-> cached, cache |-> cached]
    ELSE [shown |-> files, cache |-> files]

dashboardFrame ==
    <<path, tie_order, df_mean_temp, climate_gdf, stops_gdf, arrets_lignes,
      joined_stops, hot_stops_lines, hot_lines_df, line_stats, scoringVars,
      weights_arg, data_dir, ambient, rng, app_lines_df, first_run,
      main_lines_df, lines_df_hot_info, tile_size, written>>

InitDashboard ==
    /\ path = "dashboard"
    /\ pc = "start"
    /\ tie_order = "input"
    /\ disk \in [1..3 -> {NoFile, 0}]
    /\ shown = <<>>
    /\ cache = <<>>
    /\ run = 0
    /\ df_mean_temp = <<>>
    /\ arrets_lignes = <<>>
    /\ climate_gdf = <<>>
    /\ stops_gdf = <<>>
    /\ joined_stops = <<>>
    /\ hot_stops_lines = <<>>
    /\ hot_lines_df = <<>>
    /\ line_stats = <<>>
    /\ NotScored
    /\ weights_arg = <<>>
    /\ year = 0
    /\ data_dir = <<>>
    /\ ambient = 0
    /\ rng = 0
    /\ app_lines_df = <<>>
    /\ first_run = <<>>
    /\ main_lines_df = <<>>
    /\ lines_df_hot_info = <<>>
    /\ tile_size = R(TILE_SIZE)
    /\ written = {}

\* a rerun of the script without the button: streamlit_app.py 67-91
Render ==
    /\ path = "dashboard"
    /\ LET r == render(disk, cache)
       IN shown' = r.shown /\ cache' = r.cache
    /\ pc' = "rendered"
    /\ UNCHANGED <<disk, run, year, dashboardFrame>>

\* a rerun with the button pressed: streamlit_app.py 52-65 runs main.py
\* with the year of the sidebar to its end, then the script goes on to
\* lines 67-91
LaunchAnalysis ==
    /\ path = "dashboard"
    /\ run < MaxRuns
    /\ year' \in Years
    /\ \E outcome \in RunOutcomes :
          /\ run' = run + 1
          /\ disk' = [i \in 1..3 |-> IF i \in WrittenBy(outcome) THEN run + 1 ELSE disk[i]]
          /\ LET r == render(disk', cache)
             IN shown' = r.shown /\ cache' = r.cache
          /\ pc' = outcome
    /\ UNCHANGED dashboardFrame

NextDashboard ==
    \/ Render
    \/ LaunchAnalysis

SpecDashboard == InitDashboard /\ [][NextDashboard]_vars

\* C29: over any sequence of runs and renders the three tables shown come
\* from one and the same run, and after a successful run the tables shown
\* are those that run has written, not cached tables or files of an earlier
\* run.
C29_DashboardShowsLatestRun ==
    (path = "dashboard" /\ shown # <<>>) =>
        /\ shown[1] = shown[2] /\ shown[2] = shown[3]
        /\ pc = "done" => \A i \in 1..3 : shown[i] = run

----------------------------------------------------------------------------
(* rank_stops and rank_lines on their own *)

MaxRanked == 3

MaxTopN == 4

\* rows of StopRows and StatRows whose scores differ or tie
RankStopRows == {r \in StopRows : r.has_bench /\ r.daily_passengers = 100}

RankStatRows == {r \in StatRows : r.stops_without_bench = 0 /\ r.total_passengers = 100}

\* a PriorityScorer with a scored stop table, or a scored line table
InitRanking ==
    /\ path = "interactive"
    /\ pc = "lines_scored"
    /\ tie_order \in TieOrders
    /\ weights_arg = <<>>
    /\ weights = PriorityScorer_init(weights_arg).weights
    /\ NoRunState
    /\ \/ /\ \E rows \in SeqsUpTo(RankStopRows, MaxRanked) :
                /\ joined_stops = [i \in 1..Len(rows) |-> [stop_id |-> StopId(i)] @@ rows[i]]
                /\ scored_stops = score_stops(joined_stops, weights)
          /\ line_stats = <<>>
          /\ scored_lines = <<>>
       \/ /\ \E rows \in SeqsUpTo(RankStatRows, MaxRanked) :
                /\ line_stats = [i \in 1..Len(rows) |-> [line |-> RouteName(i)] @@ rows[i]]
                /\ scored_lines = score_lines(line_stats, weights)
          /\ joined_stops = <<>>
          /\ scored_stops = <<>>
    /\ lines_df_hot_validations = <<>>
    /\ NoSpatialInputs
    /\ prioritized_lines = <<>>
    /\ top_stops = 0
    /\ top_lines = 0
    /\ top_priority_stops = <<>>
    /\ top_priority_lines = <<>>

\* scorer.rank_stops(scored_stops, top_n), any top_n >= 0
CallRankStops ==
    /\ path = "interactive" /\ pc = "lines_scored"
    /\ \E n \in 0..MaxTopN :
          /\ top_stops' = n
          /\ top_priority_stops' = rank_top(scored_stops, n, tie_order)
    /\ pc' = "stops_ranked"
    /\ UNCHANGED <<written, runVars, path, tie_order, df_mean_temp, climate_gdf, stops_gdf,
                   arrets_lignes, joined_stops, hot_stops_lines, hot_lines_df,
                   line_stats, weights, lines_df_hot_validations, prioritized_lines,
                   scored_stops, scored_lines, top_lines, top_priority_lines>>

\* scorer.rank_lines(scored_lines, top_n), any top_n >= 0
CallRankLines ==
    /\ path = "interactive" /\ pc = "stops_ranked"
    /\ \E n \in 0..MaxTopN :
          /\ top_lines' = n
          /\ top_priority_lines' = rank_top(scored_lines, n, tie_order)
    /\ pc' = "lines_ranked"
    /\ UNCHANGED <<written, runVars, path, tie_order, df_mean_temp, climate_gdf, stops_gdf,
                   arrets_lignes, joined_stops, hot_stops_lines, hot_lines_df,
                   line_stats, weights, lines_df_hot_validations, prioritized_lines,
                   scored_stops, scored_lines, top_stops, top_priority_stops>>

NextRanking ==
    \/ CallRankStops
    \/ CallRankLines

SpecRanking == InitRanking /\ [][NextRanking]_vars

\* what the claim says of one call: scored is the table given, top_n the
\* number asked for, ranked the table returned
RankedAsClaimed(scored, top_n, ranked) ==
    LET m == IF top_n < Len(scored) THEN top_n ELSE Len(scored)
        returned == {j \in 1..Len(scored) :
                        \E i \in 1..Len(ranked) : ranked[i] = scored[j] @@ [rank |-> i]}
    IN /\ Len(ranked) = m
       /\ \A i \in 1..Len(ranked) : ranked[i].rank = i
       /\ Cardinality(returned) = m
       /\ \A j \in returned : \A k \in (1..Len(scored)) \ returned :
             RGe(scored[j].priority_score, scored[k].priority_score)
       /\ \A n \in 0..MaxTopN :
             LET other == rank_top(scored, n, tie_order)
             IN \A i \in 1..Len(ranked) : i <= Len(other) => other[i] = ranked[i]

\* C30: rank_stops and rank_lines, for a scored table of N rows and any
\* top_n >= 0, return min(top_n, N) rows carrying the ranks 1..min(top_n, N);
\* every returned row has a priority_score at least that of every row not
\* returned, and the rank of a returned row does not depend on top_n.
C30_RankReturnsTheTopRows ==
    /\ (path = "interactive" /\ pc \in {"stops_ranked", "lines_ranked"}) =>
           RankedAsClaimed(scored_stops, top_stops, top_priority_stops)
    /\ (path = "interactive" /\ pc = "lines_ranked") =>
           RankedAsClaimed(scored_lines, top_lines, top_priority_lines)

\* a call that leaves out a row of a table that was not in descending order
\* of priority_score
C30_Witness ==
    /\ path = "interactive" /\ pc = "lines_ranked"
    /\ \/ /\ 0 < top_stops /\ top_stops < Len(scored_stops)
          /\ \E i, j \in 1..Len(scored_stops) :
                i < j /\ RLt(scored_stops[i].priority_score, scored_stops[j].priority_score)
       \/ /\ 0 < top_lines /\ top_lines < Len(scored_lines)
          /\ \E i, j \in 1..Len(scored_lines) :
                i < j /\ RLt(scored_lines[i].priority_score, scored_lines[j].priority_score)

====
